---------------------------- MODULE Spec2Model ----------------------------
(***************************************************************************)
(* Model of the `rich` workspace: the identifier scope (RichScope), the    *)
(* rich decoding of a dynamically typed serde_json value together with its *)
(* metadata tree (rich_serde::ecosystem::serde_json1) and the read-only    *)
(* views over a (value, metadata) pair (rich::ecosystem::serde_json1).     *)
(*                                                                         *)
(* The serde deserializer is the environment: it drives the visitor with   *)
(* one event per step (a scalar, the start of a sequence or map, a key,    *)
(* the end of a sequence or map, or an error).  The recursion of           *)
(* rich_deserialize through next_value_seed / next_element_seed is the     *)
(* variable `stack`: one frame per visit_seq / visit_map call in progress. *)
(*                                                                         *)
(* The second part models the statically shaped records: the decode of    *)
(* RichNested and RichConfig through RichScopeSerdeSeed (rich_serde and    *)
(* serde_rich), each decoder over a RichScope of its own, and the split of *)
(* a rich record into pure data and a TreeMeta (Rich::deep_split_meta).    *)
(*                                                                         *)
(* The third part models the derive generator                              *)
(* (expand_derive_rich_deserialize and its error Context) and the          *)
(* type-level structural projection (StructuralProjection and Projector).  *)
(***************************************************************************)
EXTENDS Integers, Sequences, FiniteSets, TLC

(***************************************************************************)
(* Bounds of the model.                                                    *)
(***************************************************************************)
\* usize::MAX, with the width of usize scaled down to 4 bits
USIZE_MAX == 15
\* value nodes the decoder may yield in one free decode
MaxNodes == 3
\* attach/wrap calls after which no new top-level call is started
MaxCalls == 17
\* largest index handed to ArrayView::get
MaxIndex == 2

\* keys the decoder yields in one decode of a statically shaped record
MaxKeys == 4
\* direct attach calls made on a scope before it is handed to such a decode
MaxPre == 1
\* largest identifier written by hand into a RichMascot
MaxId == 3

\* usize::MIN, the identifier a new scope issues first
USIZE_MIN == 0

\* keys the decoder yields in a free decode, and a key no object holds
Keys == {"a", "b"}
MissingKey == "missing"
\* strings the decoder yields in a free decode
Strings == {"s"}

(***************************************************************************)
(* Rich, WrappedMeta, serde_json::Value and ValueMeta.                     *)
(***************************************************************************)
RichNew(value, meta) == [value |-> value, meta |-> meta]

WrappedMetaNew(nested, id) == [id |-> id, nested |-> nested]

\* the unit metadata `()` of a primitive
Unit == <<>>

\* serde_json::Value; an Object is a map from its keys to values
VNull == [tag |-> "Null"]
VBool(b) == [tag |-> "Bool", val |-> b]
VNumber(n) == [tag |-> "Number", val |-> n]
VString(s) == [tag |-> "String", val |-> s]
VArray(items) == [tag |-> "Array", val |-> items]
VObject(map) == [tag |-> "Object", val |-> map]

\* Option<ValueMeta>: None, or Some of one arm of ValueMeta
None == [tag |-> "None"]
MetaBool(w) == [tag |-> "Bool", val |-> w]
MetaString(w) == [tag |-> "String", val |-> w]
MetaArray(items) == [tag |-> "Array", val |-> items]
MetaObject(map) == [tag |-> "Object", val |-> map]

\* BTreeMap::new / serde_json::Map::new, insert (the last insert of a key wins)
EmptyMap == [k \in {} |-> None]
MapInsert(map, key, v) ==
  [k \in (DOMAIN map) \cup {key} |-> IF k = key THEN v ELSE map[k]]

(***************************************************************************)
(* RichScope.                                                              *)
(***************************************************************************)
\* mutant: the counter wraps around instead of saturating
WrappingAdd(x, y) == (x + y) % (USIZE_MAX + 1)

SaturatingAdd(x, y) == IF x + y > USIZE_MAX THEN USIZE_MAX ELSE x + y

\* mutant: the first identifier is 1
RichScopeNewOne == [next_id |-> USIZE_MIN + 1]

RichScopeNew == [next_id |-> USIZE_MIN]

\* mutant: attach hands out the counter without advancing it
RichScopeAttachSame(s, value) ==
  [rich |-> RichNew(value, s.next_id), scope |-> s]

\* attach returns the rich value and leaves the scope advanced
RichScopeAttach(s, value) ==
  [rich |-> RichNew(value, s.next_id),
   scope |-> [next_id |-> SaturatingAdd(s.next_id, 1)]]

\* mutant: wrap consumes two identifiers
RichScopeWrapAdvanceTwo(s, rich) ==
  [rich |-> RichNew(rich.value, WrappedMetaNew(rich.meta, s.next_id)),
   scope |-> [next_id |-> SaturatingAdd(s.next_id, 2)]]

\* mutant: wrap does not advance the counter
RichScopeWrapSame(s, rich) ==
  [rich |-> RichNew(rich.value, WrappedMetaNew(rich.meta, s.next_id)),
   scope |-> s]

\* mutant: the counter skips the multiples of four
RichScopeWrapSkipping(s, rich) ==
  [rich |-> RichNew(rich.value, WrappedMetaNew(rich.meta, s.next_id)),
   scope |-> [next_id |-> SaturatingAdd(s.next_id, IF s.next_id % 4 = 3 THEN 2 ELSE 1)]]

RichScopeWrap(s, rich) ==
  [rich |-> RichNew(rich.value, WrappedMetaNew(rich.meta, s.next_id)),
   scope |-> [next_id |-> SaturatingAdd(s.next_id, 1)]]

(***************************************************************************)
(* The events of the serde deserializer.                                   *)
(***************************************************************************)
Ev(e, b, s) == [e |-> e, b |-> b, s |-> s]
EvBool(b) == Ev("bool", b, "")
EvStr(s) == Ev("str", FALSE, s)
EvKey(k) == Ev("key", FALSE, k)
EvSeq == Ev("seq", FALSE, "")
EvMap == Ev("map", FALSE, "")
EvEnd == Ev("end", FALSE, "")

\* the input of tests::rich_parse_serde_json_value, as the events serde_json yields
TestInput ==
  << EvMap,
     EvKey("foo"), EvBool(TRUE),
     EvKey("message"), EvStr("Hello, World!"),
     EvKey("list"), EvSeq, EvBool(TRUE), EvBool(FALSE), EvEnd,
     EvEnd >>

VARIABLES
  scope,    \* the RichScope
  issued,   \* history: the identifiers attach and wrap returned, in call order
  phase,    \* "idle", "decoding", "done", "failed"
  replay,   \* the events the deserializer still has to yield when it replays TestInput
  free,     \* TRUE when the deserializer yields any event (within MaxNodes)
  start,    \* history: Len(issued) when the decode in progress or finished began
  nodes,    \* history: the scalar, array and object nodes this decode completed
  stack,    \* one frame per visit_seq / visit_map in progress, innermost last;
            \* its field `keys` is history: the keys whose values were inserted, in order
  result,   \* the Rich the decode returned (phase "done")
  error,    \* the error the decode returned (phase "failed")
  tape,     \* history: the events the deserializer yielded to this decode; of a
            \* decode that failed, the event it failed at
  view,     \* the current ValueView, or the None a get returned
  visited,  \* what the last ValueView::visit returned
  asked,    \* history: the index or key of the get that returned `view`
  decoders, \* the decodes of statically shaped records, each over its own RichScope
  split,    \* the last deep_split_meta call: its receiver and what it returned
  derive,   \* the expansion of the derive macro in progress and its error Context
  shape     \* the last structural projection computed: the type, the projector
            \* and the projection

vars == << scope, issued, phase, replay, free, start, nodes, stack, result,
           error, tape, view, visited, asked, decoders, split, derive, shape >>

NoResult == RichNew(VNull, WrappedMetaNew(None, 0))
NoView == [ok |-> "unset", value |-> VNull, meta |-> WrappedMetaNew(None, 0)]
NoVisit == [kind |-> "unset", value |-> VNull, meta |-> None]
NoAsk == [kind |-> "none", index |-> 0, key |-> ""]
NoNodes == [scalars |-> 0, arrays |-> 0, objects |-> 0]

\* Option::None and Option::Some of the statically shaped part
NoneOpt == << >>
Some(x) == << x >>
Unwrap(opt) == opt[1]

\* a RichScopeSerdeSeed<T> not yet used, over a scope just created; `types` are
\* the T its owner may decode, `tape` is history: the events the decoder yielded
NewDecoder(types) ==
  [scope |-> RichScopeNew, issued |-> << >>, types |-> types, phase |-> "idle",
   ty |-> "", start |-> 0, stack |-> << >>, result |-> NoneOpt, error |-> "",
   raisedIn |-> NoneOpt, tape |-> << >>]

\* no Context exists
NoContext == [errors |-> << >>, bomb |-> "none"]

\* the derive macro was not invoked; `checks`, `checked` and `dropped` are
\* history: the calls of Context::check, what the last one returned and how
\* the Context was dropped
NoDerive ==
  [pc |-> "idle", input |-> NoneOpt, cx |-> NoContext, next |-> 1,
   meta_attr |-> << >>, meta_name |-> NoneOpt, container |-> NoneOpt,
   tokens |-> NoneOpt, returned |-> NoneOpt, checks |-> 0, checked |-> NoneOpt,
   dropped |-> "no"]

\* `counters` is history: the counter of every scope when the call was made
NoSplit == [receiver |-> NoneOpt, returned |-> NoneOpt, counters |-> NoneOpt]

Init ==
  /\ decoders = [d \in {1} |-> NewDecoder({"Config", "Nested"})]
  /\ split = NoSplit
  /\ derive = NoDerive
  /\ shape = NoneOpt
  /\ scope = RichScopeNew
  /\ issued = << >>
  /\ phase = "idle"
  /\ replay = << >>
  /\ free = FALSE
  /\ start = 0
  /\ nodes = NoNodes
  /\ stack = << >>
  /\ result = NoResult
  /\ error = ""
  /\ tape = << >>
  /\ view = NoView
  /\ visited = NoVisit
  /\ asked = NoAsk

viewVars == << view, visited, asked >>
structVars == << decoders, split >>
deriveVars == << derive, shape >>
dynamicVars == << scope, issued, phase, replay, free, start, nodes, stack, result,
                  error, tape, view, visited, asked >>
decodeVars == << phase, replay, free, start, nodes, stack, result, error, tape >>

\* todo!() has panicked: nothing runs after it
Running == visited.kind # "todo"

(***************************************************************************)
(* Direct calls of the public scope API, made by the owner of the scope     *)
(* before it hands the scope to a decode.                                  *)
(***************************************************************************)
Attach ==
  /\ Running
  /\ phase = "idle"
  /\ Len(issued) < MaxCalls
  /\ LET r == RichScopeAttach(scope, VNull)
     IN /\ scope' = r.scope
        /\ issued' = Append(issued, r.rich.meta)
  /\ UNCHANGED << decodeVars, viewVars, structVars, deriveVars >>

Wrap ==
  /\ Running
  /\ phase = "idle"
  /\ Len(issued) < MaxCalls
  /\ LET r == RichScopeWrap(scope, RichNew(VNull, Unit))
     IN /\ scope' = r.scope
        /\ issued' = Append(issued, r.rich.meta.id)
  /\ UNCHANGED << decodeVars, viewVars, structVars, deriveVars >>

(***************************************************************************)
(* RichDeserialize for serde_json::Value.                                  *)
(***************************************************************************)
Top == stack[Len(stack)]
Pop == SubSeq(stack, 1, Len(stack) - 1)

\* the deserializer is about to yield a value: the document itself, the next
\* element of a sequence, or the value of the key just yielded
AtValue ==
  /\ phase = "decoding"
  /\ \/ stack = << >>
     \/ stack # << >> /\ Top.kind = "Array"
     \/ stack # << >> /\ Top.kind = "Object" /\ Top.haskey

\* the deserializer is inside a sequence, about to yield an element or its end
AtElement == phase = "decoding" /\ stack # << >> /\ Top.kind = "Array"

\* the deserializer is inside a map, about to yield a key or its end
AtKey == phase = "decoding" /\ stack # << >> /\ Top.kind = "Object" /\ ~Top.haskey

Started == nodes.scalars + nodes.arrays + nodes.objects + Len(stack)

\* the deserializer yields event ev now
Offered(ev) ==
  IF free THEN TRUE ELSE replay # << >> /\ Head(replay) = ev

\* a free decode may start one more node
Budget == free => Started < MaxNodes

Yield == replay' = IF free THEN replay ELSE Tail(replay)

\* mutant: the child is put in front of the earlier ones
PushFront(frame, rich) ==
  IF frame.kind = "Array"
  THEN [frame EXCEPT !.value = << rich.value >> \o @,
                     !.meta = << rich.meta >> \o @]
  ELSE [frame EXCEPT !.value = MapInsert(@, frame.key, rich.value),
                     !.meta = MapInsert(@, frame.key, rich.meta),
                     !.haskey = FALSE,
                     !.keys = Append(@, frame.key)]

\* mutant: the metadata of the child is dropped
PushValueOnly(frame, rich) ==
  IF frame.kind = "Array"
  THEN [frame EXCEPT !.value = Append(@, rich.value)]
  ELSE [frame EXCEPT !.value = MapInsert(@, frame.key, rich.value),
                     !.haskey = FALSE,
                     !.keys = Append(@, frame.key)]

\* mutant: the first value of a key met twice is kept
PushFirstWins(frame, rich) ==
  IF frame.kind = "Array"
  THEN [frame EXCEPT !.value = Append(@, rich.value),
                     !.meta = Append(@, rich.meta)]
  ELSE [frame EXCEPT !.value = IF frame.key \in DOMAIN @ THEN @
                                ELSE MapInsert(@, frame.key, rich.value),
                     !.meta = MapInsert(@, frame.key, rich.meta),
                     !.haskey = FALSE,
                     !.keys = Append(@, frame.key)]

\* mutant: the metadata of the first value of a key met twice is kept
PushFirstMetaWins(frame, rich) ==
  IF frame.kind = "Array"
  THEN [frame EXCEPT !.value = Append(@, rich.value),
                     !.meta = Append(@, rich.meta)]
  ELSE [frame EXCEPT !.value = MapInsert(@, frame.key, rich.value),
                     !.meta = IF frame.key \in DOMAIN @ THEN @
                               ELSE MapInsert(@, frame.key, rich.meta),
                     !.haskey = FALSE,
                     !.keys = Append(@, frame.key)]

\* visit_seq and visit_map: the body of the while loop, run on the frame of the
\* caller when next_element_seed / next_value_seed returned `rich`
Push(frame, rich) ==
  IF frame.kind = "Array"
  THEN [frame EXCEPT !.value = Append(@, rich.value),
                     !.meta = Append(@, rich.meta)]
  ELSE [frame EXCEPT !.value = MapInsert(@, frame.key, rich.value),
                     !.meta = MapInsert(@, frame.key, rich.meta),
                     !.haskey = FALSE,
                     !.keys = Append(@, frame.key)]

\* rich_deserialize returns Ok(rich) to its caller: the frame below, or the
\* caller of the whole decode
Return(rich, below) ==
  IF below = << >>
  THEN /\ stack' = << >>
       /\ phase' = "done"
       /\ result' = rich
  ELSE /\ stack' = [below EXCEPT ![Len(below)] = Push(below[Len(below)], rich)]
       /\ phase' = "decoding"
       /\ result' = result

\* mutant: an enclosing level replaces the error by one of its own
FailReplaced(err) ==
  /\ phase' = "failed"
  /\ error' = "invalid value"
  /\ stack' = << >>
  /\ result' = NoResult

\* an error leaves every frame through `?`
Fail(err) ==
  /\ phase' = "failed"
  /\ error' = err
  /\ stack' = << >>
  /\ result' = NoResult

\* RichScopeSerdeSeed::<serde_json::Value>::new(&mut scope).deserialize(de);
\* the result of an earlier decode and its views are dropped
BeginDecode ==
  /\ Running
  /\ phase # "decoding"
  /\ Len(issued) < MaxCalls
  /\ phase' = "decoding"
  /\ start' = Len(issued)
  /\ nodes' = NoNodes
  /\ stack' = << >>
  /\ result' = NoResult
  /\ error' = ""
  /\ tape' = << >>
  /\ view' = NoView
  /\ visited' = NoVisit
  /\ asked' = NoAsk
  /\ UNCHANGED << scope, issued, structVars, deriveVars >>

Deserialize ==
  /\ BeginDecode
  /\ free' = TRUE
  /\ replay' = << >>

DeserializeTestInput ==
  /\ BeginDecode
  /\ free' = FALSE
  /\ replay' = TestInput

\* mutant: the union node is wrapped before the primitive
ScalarOuterFirst(value0, isBool) ==
  LET outer == RichScopeWrap(scope, RichNew(value0, Unit))
      wrapped0 == RichScopeWrap(outer.scope, RichNew(value0, Unit))
      value == IF isBool THEN VBool(wrapped0.rich.value)
                         ELSE VString(wrapped0.rich.value)
      meta == IF isBool THEN MetaBool(wrapped0.rich.meta)
                        ELSE MetaString(wrapped0.rich.meta)
      wrapped == RichNew(value, WrappedMetaNew(meta, outer.rich.meta.id))
  IN /\ scope' = wrapped0.scope
     /\ issued' = issued \o << outer.rich.meta.id, wrapped0.rich.meta.id >>
     /\ nodes' = [nodes EXCEPT !.scalars = @ + 1]
     /\ Return(wrapped, stack)
     /\ Yield
     /\ tape' = Append(tape, IF isBool THEN EvBool(value0) ELSE EvStr(value0))
     /\ UNCHANGED << free, start, error, viewVars, structVars, deriveVars >>

\* visit_bool / visit_str / visit_string, then the wrap of rich_deserialize
Scalar(value0, isBool) ==
  LET wrapped0 == RichScopeWrap(scope, RichNew(value0, Unit))
      value == IF isBool THEN VBool(wrapped0.rich.value)
                         ELSE VString(wrapped0.rich.value)
      meta == IF isBool THEN MetaBool(wrapped0.rich.meta)
                        ELSE MetaString(wrapped0.rich.meta)
      wrapped == RichScopeWrap(wrapped0.scope, RichNew(value, meta))
  IN /\ scope' = wrapped.scope
     /\ issued' = issued \o << wrapped0.rich.meta.id, wrapped.rich.meta.id >>
     /\ nodes' = [nodes EXCEPT !.scalars = @ + 1]
     /\ Return(wrapped.rich, stack)
     /\ Yield
     /\ tape' = Append(tape, IF isBool THEN EvBool(value0) ELSE EvStr(value0))
     /\ UNCHANGED << free, start, error, viewVars, structVars, deriveVars >>

VisitBool ==
  \E v \in BOOLEAN :
    /\ AtValue
    /\ Offered(EvBool(v))
    /\ Budget
    /\ Scalar(v, TRUE)

VisitStr ==
  \E v \in Strings \cup {"Hello, World!"} :
    /\ AtValue
    /\ Offered(EvStr(v))
    /\ free => v \in Strings
    /\ Budget
    /\ Scalar(v, FALSE)

\* RichVisitor has no visit_unit, visit_i64, visit_u64 or visit_f64: serde's
\* default methods return Error::invalid_type
VisitDefault ==
  \E kind \in {"null", "number"} :
    /\ AtValue
    /\ free
    /\ Fail(IF kind = "null" THEN "invalid type: null" ELSE "invalid type: number")
    /\ tape' = << Ev(kind, FALSE, "") >>
    /\ UNCHANGED << scope, issued, replay, free, start, nodes, viewVars, structVars, deriveVars >>

\* the errors the deserializer itself reports
DecoderErrors == {"syntax", "eof"}

\* the deserializer itself fails (malformed or truncated input), at a value, a
\* key or an end
DecoderError ==
  /\ phase = "decoding"
  /\ free
  /\ \E err \in DecoderErrors :
       /\ Fail(err)
       /\ tape' = << Ev("error", FALSE, err) >>
  /\ UNCHANGED << scope, issued, replay, free, start, nodes, viewVars, structVars, deriveVars >>

\* visit_seq is entered
VisitSeq ==
  /\ AtValue
  /\ Offered(EvSeq)
  /\ Budget
  /\ stack' = Append(stack, [kind |-> "Array", value |-> << >>, meta |-> << >>,
                             haskey |-> FALSE, key |-> "", keys |-> << >>,
                             froms |-> << >>])
  /\ tape' = Append(tape, EvSeq)
  /\ Yield
  /\ UNCHANGED << scope, issued, phase, free, start, nodes, result, error, viewVars, structVars, deriveVars >>

\* visit_map is entered
VisitMap ==
  /\ AtValue
  /\ Offered(EvMap)
  /\ Budget
  /\ stack' = Append(stack, [kind |-> "Object", value |-> EmptyMap, meta |-> EmptyMap,
                             haskey |-> FALSE, key |-> "", keys |-> << >>,
                             froms |-> << >>])
  /\ tape' = Append(tape, EvMap)
  /\ Yield
  /\ UNCHANGED << scope, issued, phase, free, start, nodes, result, error, viewVars, structVars, deriveVars >>

\* map.next_key returns Some(key)
NextKeySome ==
  \E key \in Keys \cup {"foo", "message", "list"} :
    /\ AtKey
    /\ Offered(EvKey(key))
    /\ free => key \in Keys
    /\ Budget
    /\ stack' = [stack EXCEPT ![Len(stack)] =
                   [@ EXCEPT !.haskey = TRUE, !.key = key,
                             !.froms = Append(@, Len(issued))]]
    /\ tape' = Append(tape, EvKey(key))
    /\ Yield
    /\ UNCHANGED << scope, issued, phase, free, start, nodes, result, error, viewVars, structVars, deriveVars >>

\* the while loop of visit_seq / visit_map ends: the node is built, wrapped by
\* rich_deserialize and returned
Container(frame) ==
  LET value == IF frame.kind = "Array" THEN VArray(frame.value) ELSE VObject(frame.value)
      meta == IF frame.kind = "Array" THEN MetaArray(frame.meta) ELSE MetaObject(frame.meta)
      wrapped == RichScopeWrap(scope, RichNew(value, meta))
  IN /\ scope' = wrapped.scope
     /\ issued' = Append(issued, wrapped.rich.meta.id)
     /\ nodes' = IF frame.kind = "Array" THEN [nodes EXCEPT !.arrays = @ + 1]
                                         ELSE [nodes EXCEPT !.objects = @ + 1]
     /\ Return(wrapped.rich, Pop)
     /\ Yield
     /\ tape' = Append(tape, EvEnd)
     /\ UNCHANGED << free, start, error, viewVars, structVars, deriveVars >>

\* seq.next_element_seed returns None
NextElementNone ==
  /\ AtElement
  /\ Offered(EvEnd)
  /\ Container(Top)

\* map.next_key returns None
NextKeyNone ==
  /\ AtKey
  /\ Offered(EvEnd)
  /\ Container(Top)

(***************************************************************************)
(* The views of rich::ecosystem::serde_json1.                              *)
(***************************************************************************)
ValueViewNew(rich) == [ok |-> "some", value |-> rich.value, meta |-> rich.meta]

\* the None an ArrayView::get or ObjectView::get returns
ViewNone == [ok |-> "none", value |-> VNull, meta |-> WrappedMetaNew(None, 0)]

ValueViewMeta(v) == v.meta.id

\* mutant: a variant without a branch is viewed as a Bool
ValueViewVisitFallback(v) ==
  CASE v.value.tag = "Array" ->
         [kind |-> "Array", value |-> v.value.val,
          meta |-> IF v.meta.nested.tag = "Array" THEN v.meta.nested.val
                   ELSE << >>]
    [] v.value.tag = "Object" ->
         [kind |-> "Object", value |-> v.value.val,
          meta |-> IF v.meta.nested.tag = "Object" THEN v.meta.nested.val
                   ELSE EmptyMap]
    [] OTHER ->
         [kind |-> "Bool", value |-> FALSE, meta |-> WrappedMetaNew(Unit, 0)]

\* mutant: metadata of another variant than the value is refused
ValueViewVisitStrict(v) ==
  IF v.value.tag \in {"Bool", "Array", "Object"} /\ v.meta.nested.tag = v.value.tag
  THEN [kind |-> v.value.tag, value |-> v.value.val, meta |-> v.meta.nested.val]
  ELSE [kind |-> "todo", value |-> VNull, meta |-> None]

\* ValueView::visit; kind "todo" is the panic of todo!()
ValueViewVisit(v) ==
  CASE v.value.tag = "Bool" ->
         [kind |-> "Bool", value |-> v.value.val,
          meta |-> IF v.meta.nested.tag = "Bool" THEN v.meta.nested.val
                   ELSE WrappedMetaNew(Unit, 0)]
    [] v.value.tag = "Array" ->
         [kind |-> "Array", value |-> v.value.val,
          meta |-> IF v.meta.nested.tag = "Array" THEN v.meta.nested.val
                   ELSE << >>]
    [] v.value.tag = "Object" ->
         [kind |-> "Object", value |-> v.value.val,
          meta |-> IF v.meta.nested.tag = "Object" THEN v.meta.nested.val
                   ELSE EmptyMap]
    [] OTHER -> [kind |-> "todo", value |-> VNull, meta |-> None]

\* mutant: every element is paired with the metadata of the first one
ArrayViewGetFirstMeta(a, index) ==
  IF index >= Len(a.value)
  THEN ViewNone
  ELSE ValueViewNew(RichNew(a.value[index + 1],
                            IF 0 < Len(a.meta) THEN a.meta[1]
                            ELSE WrappedMetaNew(None, 0)))

\* ArrayView::get; Vec::get(index) is the element at index + 1 of the sequence
ArrayViewGet(a, index) ==
  IF index >= Len(a.value)
  THEN ViewNone
  ELSE ValueViewNew(RichNew(a.value[index + 1],
                            IF index < Len(a.meta) THEN a.meta[index + 1]
                            ELSE WrappedMetaNew(None, 0)))

\* mutant: a key without metadata is not found
ObjectViewGetStrict(o, key) ==
  IF key \notin DOMAIN o.value \/ key \notin DOMAIN o.meta
  THEN ViewNone
  ELSE ValueViewNew(RichNew(o.value[key], o.meta[key]))

\* ObjectView::get
ObjectViewGet(o, key) ==
  IF key \notin DOMAIN o.value
  THEN ViewNone
  ELSE ValueViewNew(RichNew(o.value[key],
                            IF key \in DOMAIN o.meta THEN o.meta[key]
                            ELSE WrappedMetaNew(None, 0)))

\* values and metadata trees a caller of ValueView::new may pair by hand
ForeignValues ==
  { VNull, VNumber(1), VBool(TRUE), VString("s"),
    VArray(<< VBool(TRUE) >>),
    VArray(<< VBool(FALSE), VNull >>),
    VObject([k \in {"a"} |-> VBool(TRUE)]),
    VObject([k \in {"a", "b"} |-> IF k = "a" THEN VString("s") ELSE VBool(FALSE)]) }

ForeignChild(id) == WrappedMetaNew(MetaBool(WrappedMetaNew(Unit, id)), id + 1)

ForeignMetas ==
  { WrappedMetaNew(nested, 7) :
      nested \in { None,
                   MetaBool(WrappedMetaNew(Unit, 6)),
                   MetaString(WrappedMetaNew(Unit, 6)),
                   MetaArray(<< >>),
                   MetaArray(<< ForeignChild(1) >>),
                   MetaArray(<< ForeignChild(1), ForeignChild(3) >>),
                   MetaObject(EmptyMap),
                   MetaObject([k \in {"a"} |-> ForeignChild(1)]),
                   MetaObject([k \in {"a", "b"} |->
                                 IF k = "a" THEN ForeignChild(1) ELSE ForeignChild(3)]) } }

\* ValueView::new(rich.as_ref()) over the result of the decode
ViewResult ==
  /\ Running
  /\ phase = "done"
  /\ view' = ValueViewNew(result)
  /\ visited' = NoVisit
  /\ asked' = NoAsk
  /\ UNCHANGED << scope, issued, decodeVars, structVars, deriveVars >>

\* ValueView::new over a pair built by hand; a view reads no scope, so this is
\* modelled on the scope as created
ViewForeign ==
  /\ Running
  /\ phase = "idle"
  /\ issued = << >>
  /\ \E value \in ForeignValues, meta \in ForeignMetas :
       view' = ValueViewNew(RichNew(value, meta))
  /\ visited' = NoVisit
  /\ asked' = NoAsk
  /\ UNCHANGED << scope, issued, decodeVars, structVars, deriveVars >>

Visit ==
  /\ Running
  /\ view.ok = "some"
  /\ visited' = ValueViewVisit(view)
  /\ asked' = NoAsk
  /\ UNCHANGED << scope, issued, decodeVars, view, structVars, deriveVars >>

ArrayGet ==
  /\ visited.kind = "Array"
  /\ \E index \in 0 .. MaxIndex :
       /\ view' = ArrayViewGet(visited, index)
       /\ asked' = [kind |-> "index", index |-> index, key |-> ""]
  /\ UNCHANGED << scope, issued, decodeVars, visited, structVars, deriveVars >>

ObjectGet ==
  /\ visited.kind = "Object"
  /\ \E key \in Keys \cup {"foo", MissingKey} :
       /\ view' = ObjectViewGet(visited, key)
       /\ asked' = [kind |-> "key", index |-> 0, key |-> key]
  /\ UNCHANGED << scope, issued, decodeVars, visited, structVars, deriveVars >>

Next ==
  \/ Attach
  \/ Wrap
  \/ Deserialize
  \/ DeserializeTestInput
  \/ VisitBool
  \/ VisitStr
  \/ VisitDefault
  \/ DecoderError
  \/ VisitSeq
  \/ VisitMap
  \/ NextKeySome
  \/ NextElementNone
  \/ NextKeyNone
  \/ ViewResult
  \/ ViewForeign
  \/ Visit
  \/ ArrayGet
  \/ ObjectGet

Spec == Init /\ [][Next]_vars

(***************************************************************************)
(* TreeMeta, SplitMeta and Rich::deep_split_meta.                          *)
(***************************************************************************)
TreeMetaNew(meta, nested) == [meta |-> meta, nested |-> nested]

\* SplitMeta for bool, u32 (and String): the value itself and the unit metadata
SplitMetaPrimitive(self) == RichNew(self, Unit)

\* Rich::deep_split_meta of `self`, value_and_nested_meta being what
\* self.value.split_meta() returned
DeepSplitMeta(self, value_and_nested_meta) ==
  RichNew(value_and_nested_meta.value,
          TreeMetaNew(self.meta, value_and_nested_meta.meta))

\* mutant: the metadata of the two fields are exchanged
SplitMetaRichMascotCrossed(self) ==
  LET is_crab == DeepSplitMeta(self.is_crab, SplitMetaPrimitive(self.is_crab.value))
      price == DeepSplitMeta(self.price, SplitMetaPrimitive(self.price.value))
  IN RichNew([is_crab |-> is_crab.value, price |-> price.value],
             [is_crab |-> price.meta, price |-> is_crab.meta])

\* SplitMeta for RichMascot
SplitMetaRichMascot(self) ==
  LET is_crab == DeepSplitMeta(self.is_crab, SplitMetaPrimitive(self.is_crab.value))
      price == DeepSplitMeta(self.price, SplitMetaPrimitive(self.price.value))
  IN RichNew([is_crab |-> is_crab.value, price |-> price.value],
             [is_crab |-> is_crab.meta, price |-> price.meta])

\* mutant: the identifier of crab is replaced by the one of the record's own slot
SplitMetaRichNestedNoId(self) ==
  RichNew([crab |-> self.crab.value], [crab |-> TreeMetaNew(USIZE_MIN, Unit)])

\* SplitMeta for RichNested
SplitMetaRichNested(self) ==
  LET crab == DeepSplitMeta(self.crab, SplitMetaPrimitive(self.crab.value))
  IN RichNew([crab |-> crab.value], [crab |-> crab.meta])

\* SplitMeta for RichConfig
SplitMetaRichConfig(self) ==
  LET str == DeepSplitMeta(self.str, SplitMetaPrimitive(self.str.value))
      num == DeepSplitMeta(self.num, SplitMetaPrimitive(self.num.value))
      nested == DeepSplitMeta(self.nested, SplitMetaRichNested(self.nested.value))
  IN RichNew([str |-> str.value, num |-> num.value, nested |-> nested.value],
             [str |-> str.meta, num |-> num.meta, nested |-> nested.meta])

\* the split_meta of the record type ty
SplitMetaOf(ty, self) ==
  CASE ty = "Mascot" -> SplitMetaRichMascot(self)
    [] ty = "Nested" -> SplitMetaRichNested(self)
    [] OTHER -> SplitMetaRichConfig(self)

(***************************************************************************)
(* RichScopeSerdeSeed<RichNested> and RichScopeSerdeSeed<RichConfig>: the  *)
(* decode of a statically shaped record.  Each decoder owns its scope; a   *)
(* frame of its stack is one visit_map in progress.                        *)
(***************************************************************************)
\* the fields of the struct, in the order the visitor declares and unwraps them
Fields(ty) == IF ty = "Config" THEN << "str", "num", "nested" >> ELSE << "crab" >>

FieldSet(ty) == { Fields(ty)[i] : i \in 1 .. Len(Fields(ty)) }

\* a key the struct does not declare (Field::Other)
OtherKey == "other"

\* FieldVisitor::visit_str
FieldVisitor(ty, v) == IF v \in FieldSet(ty) THEN v ELSE "Other"

\* the values the decoder yields for a field of a primitive type
FieldValues(f) ==
  CASE f = "str" -> {"Hello, World!"}
    [] f = "num" -> {42}
    [] OTHER -> BOOLEAN

\* the events a decoder yielded: the start and end of a map, a key, a value
TMap == << "map" >>
TEnd == << "end" >>
TKey(k) == << "key", k >>
TValue(v) == << "value", v >>

\* the locals of visit_map: one Option per field; `key` is the field whose
\* value is awaited
NewFrame(ty) ==
  [ty |-> ty, fields |-> [f \in FieldSet(ty) |-> NoneOpt], key |-> ""]

DuplicateField(f) == "duplicate field " \o f
MissingField(f) == "missing field " \o f

\* mutant: one counter is shared by all scopes
UpdateShared(d, dec) ==
  [e \in DOMAIN decoders |->
     IF e = d THEN dec ELSE [decoders[e] EXCEPT !.scope = dec.scope]]

\* the seed of decoder d borrows the scope of d alone
Update(d, dec) == [decoders EXCEPT ![d] = dec]

\* self.0.attach(value) on the scope of the decoder
AttachIn(dec, value) ==
  LET r == RichScopeAttach(dec.scope, value)
  IN [rich |-> r.rich,
      dec |-> [dec EXCEPT !.scope = r.scope, !.issued = Append(@, r.rich.meta)]]

\* an error leaves every frame through `?`; raisedIn is history: the frame
\* whose code returned the error
StructFail(dec, err, frames) ==
  [dec EXCEPT !.phase = "failed", !.error = err, !.stack = << >>,
              !.raisedIn = frames]

Yielded(dec) == Cardinality({ i \in 1 .. Len(dec.tape) : dec.tape[i][1] = "key" })

\* mutant: the field is read again and the later value replaces the earlier one
KnownFieldLastWins(frame, f) == [err |-> "", frame |-> [frame EXCEPT !.key = f]]

\* the arm of a declared field in the match of visit_map: the duplicate check,
\* after which the value of the field is awaited
KnownField(frame, f) ==
  IF frame.fields[f] # NoneOpt
  THEN [err |-> DuplicateField(f), frame |-> frame]
  ELSE [err |-> "", frame |-> [frame EXCEPT !.key = f]]

\* mutant: the last field without a value is the one reported
MissingLast(frame) ==
  LET fs == Fields(frame.ty)
      unset == { i \in 1 .. Len(fs) : frame.fields[fs[i]] = NoneOpt }
  IN IF unset = {} THEN NoneOpt
     ELSE Some(fs[CHOOSE i \in unset : \A j \in unset : j <= i])

\* the matches after the while loop of visit_map: the field reported missing
Missing(frame) ==
  LET fs == Fields(frame.ty)
      unset == { i \in 1 .. Len(fs) : frame.fields[fs[i]] = NoneOpt }
  IN IF unset = {} THEN NoneOpt
     ELSE Some(fs[CHOOSE i \in unset : \A j \in unset : i <= j])

\* the struct visit_map returns: RichNested { crab } or RichConfig { str, num, nested }
Built(frame) == [f \in FieldSet(frame.ty) |-> Unwrap(frame.fields[f])]

\* a direct call of attach by the owner of the scope, before the decode
AttachOn ==
  \E d \in DOMAIN decoders :
    /\ decoders[d].phase = "idle"
    /\ split = NoSplit
    /\ Len(decoders[d].issued) < MaxPre
    /\ decoders' = Update(d, AttachIn(decoders[d], Unit).dec)
    /\ UNCHANGED << deriveVars, dynamicVars, split >>

\* RichScopeSerdeSeed::<T>::new(&mut scope).deserialize(de)
DeserializeStruct ==
  \E d \in DOMAIN decoders :
    \E ty \in decoders[d].types :
      /\ decoders[d].phase = "idle"
      /\ split = NoSplit
      /\ decoders' = Update(d, [decoders[d] EXCEPT !.phase = "decoding", !.ty = ty,
                                                  !.start = Len(decoders[d].issued)])
      /\ UNCHANGED << deriveVars, dynamicVars, split >>

\* deserialize_struct enters visit_map: for the record decoded, or for the
\* value of the field `nested` through next_value_seed
StructVisitMap ==
  \E d \in DOMAIN decoders :
    LET dec == decoders[d]
    IN /\ dec.phase = "decoding"
       /\ \/ dec.stack = << >>
          \/ dec.stack # << >> /\ dec.stack[Len(dec.stack)].key = "nested"
       /\ decoders' = Update(d,
            [dec EXCEPT !.stack = Append(@, NewFrame(IF dec.stack = << >> THEN dec.ty
                                                      ELSE "Nested")),
                        !.tape = Append(@, TMap)])
       /\ UNCHANGED << deriveVars, dynamicVars, split >>

\* map.next_key::<Field>() returns Some(key).  The arm of Field::Other reads no
\* value: the next call of the loop is next_key again
StructNextKey ==
  \E d \in DOMAIN decoders :
    LET dec == decoders[d]
    IN /\ dec.phase = "decoding"
       /\ dec.stack # << >>
       /\ dec.stack[Len(dec.stack)].key = ""
       /\ Yielded(dec) < MaxKeys
       /\ \E k \in FieldSet(dec.stack[Len(dec.stack)].ty) \cup {OtherKey} :
            LET frame == dec.stack[Len(dec.stack)]
                field == FieldVisitor(frame.ty, k)
                read == [dec EXCEPT !.tape = Append(@, TKey(k))]
            IN decoders' = Update(d,
                 IF field = "Other" THEN read
                 ELSE IF KnownField(frame, field).err # ""
                      THEN StructFail(read, KnownField(frame, field).err, Some(frame))
                      ELSE [read EXCEPT !.stack[Len(dec.stack)] =
                                          KnownField(frame, field).frame])
       /\ UNCHANGED << deriveVars, dynamicVars, split >>

\* map.next_value() returns the value of a primitive field, which is attached
StructNextValue ==
  \E d \in DOMAIN decoders :
    LET dec == decoders[d]
    IN /\ dec.phase = "decoding"
       /\ dec.stack # << >>
       /\ dec.stack[Len(dec.stack)].key \in {"str", "num", "crab"}
       /\ \E v \in FieldValues(dec.stack[Len(dec.stack)].key) :
            LET frame == dec.stack[Len(dec.stack)]
                a == AttachIn(dec, v)
            IN decoders' = Update(d,
                 [a.dec EXCEPT !.stack[Len(dec.stack)] =
                                 [frame EXCEPT !.fields[frame.key] = Some(a.rich),
                                               !.key = ""],
                               !.tape = Append(@, TValue(v))])
       /\ UNCHANGED << deriveVars, dynamicVars, split >>

\* map.next_key returns None: the loop ends, the fields are unwrapped, the
\* struct is returned to deserialize, which attaches it; the rich struct is the
\* result of the decode or the value of the field `nested` of the caller
StructNextKeyNone ==
  \E d \in DOMAIN decoders :
    LET dec == decoders[d]
        depth == Len(dec.stack)
    IN /\ dec.phase = "decoding"
       /\ dec.stack # << >>
       /\ dec.stack[depth].key = ""
       /\ LET frame == dec.stack[depth]
              read == [dec EXCEPT !.tape = Append(@, TEnd)]
              a == AttachIn(read, Built(frame))
          IN decoders' = Update(d,
               IF Missing(frame) # NoneOpt
               THEN StructFail(read, MissingField(Unwrap(Missing(frame))), Some(frame))
               ELSE IF depth = 1
                    THEN [a.dec EXCEPT !.phase = "done", !.stack = << >>,
                                       !.result = Some(a.rich)]
                    ELSE [a.dec EXCEPT
                            !.stack = [SubSeq(dec.stack, 1, depth - 1) EXCEPT
                                         ![depth - 1] =
                                           [@ EXCEPT !.fields["nested"] = Some(a.rich),
                                                     !.key = ""]]])
       /\ UNCHANGED << deriveVars, dynamicVars, split >>

\* the deserializer returns an error: malformed input, a value of another type
\* than the field's, a struct that is not a map, or (serde_json) a key requested
\* while the value of an undeclared key is still unread
StructDecoderError ==
  \E d \in DOMAIN decoders :
    /\ decoders[d].phase = "decoding"
    /\ decoders' = Update(d, StructFail(decoders[d], "syntax", NoneOpt))
    /\ UNCHANGED << deriveVars, dynamicVars, split >>

\* rich.deep_split_meta() on the result of a decode
DeepSplitResult ==
  \E d \in DOMAIN decoders :
    LET dec == decoders[d]
    IN /\ dec.phase = "done"
       /\ split' =
            [receiver |-> Some([ty |-> dec.ty, rich |-> Unwrap(dec.result)]),
             returned |-> Some(DeepSplitMeta(Unwrap(dec.result),
                                             SplitMetaOf(dec.ty, Unwrap(dec.result).value))),
             counters |-> Some([e \in DOMAIN decoders |-> decoders[e].scope.next_id])]
       /\ UNCHANGED << deriveVars, dynamicVars, decoders >>

\* deep_split_meta on a RichMascot written by hand, as tests::deep_split_meta_mascot
DeepSplitMascot ==
  /\ \A d \in DOMAIN decoders : decoders[d].phase = "idle" /\ decoders[d].issued = << >>
  /\ \E is_crab \in BOOLEAN, id1, id2, id3 \in 0 .. MaxId :
       LET config == RichNew([is_crab |-> RichNew(is_crab, id1),
                              price |-> RichNew(42, id2)], id3)
       IN split' =
            [receiver |-> Some([ty |-> "Mascot", rich |-> config]),
             returned |-> Some(DeepSplitMeta(config, SplitMetaOf("Mascot", config.value))),
             counters |-> Some([e \in DOMAIN decoders |-> decoders[e].scope.next_id])]
  /\ UNCHANGED << deriveVars, dynamicVars, decoders >>

StructNext ==
  \/ AttachOn
  \/ DeserializeStruct
  \/ StructVisitMap
  \/ StructNextKey
  \/ StructNextValue
  \/ StructNextKeyNone
  \/ StructDecoderError
  \/ DeepSplitResult
  \/ DeepSplitMascot

\* one owner decoding a RichConfig or a RichNested
StructSpec == Init /\ [][StructNext]_vars

\* two owners, each with a scope of its own, decoding a RichNested each
TwoScopesInit ==
  /\ scope = RichScopeNew
  /\ issued = << >>
  /\ phase = "idle"
  /\ replay = << >>
  /\ free = FALSE
  /\ start = 0
  /\ nodes = NoNodes
  /\ stack = << >>
  /\ result = NoResult
  /\ error = ""
  /\ tape = << >>
  /\ view = NoView
  /\ visited = NoVisit
  /\ asked = NoAsk
  /\ decoders = [d \in {1, 2} |-> NewDecoder({"Nested"})]
  /\ split = NoSplit
  /\ derive = NoDerive
  /\ shape = NoneOpt

TwoScopesSpec == TwoScopesInit /\ [][StructNext]_vars

(***************************************************************************)
(* The derive generator: expand_derive_rich_deserialize turns the syntax   *)
(* tree of a type declaration into the declaration of its metadata type    *)
(* and the MetaType implementation that binds the two.  A syn::DeriveInput *)
(* is a record of the identifier, the attributes in the order written and  *)
(* the data; a token stream is a record of what it declares; a syn::Error  *)
(* is the sequence of its messages; the Context collects errors and holds  *)
(* a DropBomb that panics when the Context is dropped before `check`.      *)
(***************************************************************************)
MaxAttrs == 1   \* attributes on the input type
MaxItems == 2   \* nested items of one #[meta(...)] attribute
MaxFields == 2  \* fields of the input type
MaxErrors == 2  \* errors recorded in a Context used directly

META == "meta"
ATTR == "attr"
NAME == "name"

SeqsUpTo(S, n) == UNION { [1 .. k -> S] : k \in 0 .. n }

\* the nested items of a #[meta(...)] attribute: `name = Ident`,
\* `attr(tokens)`, and an item the generator does not know
MetaItems ==
  { [path |-> NAME, arg |-> "MetaUnit"],
    [path |-> ATTR, arg |-> "derive(Default, Debug)"],
    [path |-> ATTR, arg |-> "allow(unused)"],
    [path |-> "rename", arg |-> "x"] }

\* an attribute of the input: one of another macro, or #[meta(...)]
Attributes ==
  { [path |-> "allow", tokens |-> << >>] }
    \cup { [path |-> META, tokens |-> t] : t \in SeqsUpTo(MetaItems, MaxItems) }

FieldIdents == << "str", "num", "nested", "crab" >>

\* syn::Fields: named, unnamed or unit
SynFields ==
  { [style |-> "Unit", list |-> << >>] }
    \cup { [style |-> "Named",
            list |-> [i \in 1 .. n |-> [ident |-> Some(FieldIdents[i]), ty |-> "bool"]]] :
           n \in 0 .. MaxFields }
    \cup { [style |-> "Unnamed",
            list |-> [i \in 1 .. n |-> [ident |-> NoneOpt, ty |-> "bool"]]] :
           n \in 0 .. MaxFields }

\* syn::Data: a struct, an enum (of one unit variant) or a union
SynData ==
  { [kind |-> "Struct", fields |-> f] : f \in SynFields }
    \cup { [kind |-> "Enum", fields |-> [style |-> "Unit", list |-> << >>]],
           [kind |-> "Union",
            fields |-> [style |-> "Named",
                        list |-> << [ident |-> Some("str"), ty |-> "bool"] >>]] }

DeriveInputs ==
  [ident : {"MyUnit"}, attrs : SeqsUpTo(Attributes, MaxAttrs), data : SynData]

\* Context::new
ContextNew == [errors |-> << >>, bomb |-> "armed"]

\* Context::syn_error
ContextSynError(cx, err) == [cx EXCEPT !.errors = Append(@, err)]

\* Context::error_spanned_by: the error is built from the message
ContextErrorSpannedBy(cx, obj, msg) == [cx EXCEPT !.errors = Append(@, << msg >>)]

RECURSIVE Combine(_, _)
\* syn::Error::combine over the remaining errors, in order
Combine(combined, rest) ==
  IF rest = << >> THEN combined ELSE Combine(combined \o Head(rest), Tail(rest))

SynOk == [ok |-> TRUE, error |-> << >>]
SynErr(err) == [ok |-> FALSE, error |-> err]

\* a check that reports the first error only
ContextCheckFirstOnly(cx) ==
  [cx |-> [cx EXCEPT !.bomb = "defused"],
   result |-> IF cx.errors = << >> THEN SynOk ELSE SynErr(Head(cx.errors))]

\* Context::check: defuses the bomb, then Ok without errors, else the first
\* error combined with the rest
ContextCheck(cx) ==
  [cx |-> [cx EXCEPT !.bomb = "defused"],
   result |-> IF cx.errors = << >> THEN SynOk
              ELSE SynErr(Combine(Head(cx.errors), Tail(cx.errors)))]

\* dropping a Context: the bomb goes off unless it was defused
ContextDrop(cx) == IF cx.bomb = "defused" THEN "defused" ELSE "exploded"

Named(ident) == [named |-> TRUE, ident |-> ident, index |-> 0]
Unnamed(index) == [named |-> FALSE, ident |-> "", index |-> index]

\* fields_from_ast: the member of a field is its name or its position
FieldsFromAst(fields) ==
  [i \in DOMAIN fields |->
     [member |-> IF fields[i].ident # NoneOpt THEN Named(Unwrap(fields[i].ident))
                 ELSE Unnamed(i - 1),
      ty |-> fields[i].ty]]

\* struct_from_ast
StructFromAst(fields) ==
  CASE fields.style = "Named" -> [style |-> "Struct", fields |-> FieldsFromAst(fields.list)]
    [] fields.style = "Unnamed" -> [style |-> "Tuple", fields |-> FieldsFromAst(fields.list)]
    [] fields.style = "Unit" -> [style |-> "Unit", fields |-> << >>]

RECURSIVE ParseNestedMeta(_, _)
\* the closure given to parse_nested_meta, applied to the items in order:
\* st holds meta_attr, meta_name and whether an item was refused
ParseNestedMeta(st, items) ==
  IF items = << >> THEN st
  ELSE LET meta == Head(items) IN
       CASE meta.path = ATTR ->
              ParseNestedMeta([st EXCEPT !.meta_attr = Append(@, meta.arg)], Tail(items))
         [] meta.path = NAME ->
              ParseNestedMeta([st EXCEPT !.meta_name = Some(meta.arg)], Tail(items))
         [] OTHER -> [st EXCEPT !.err = TRUE]

\* the attributes forwarded in reverse
ForwardMetaReversed(attr) ==
  [i \in DOMAIN attr |-> [meta |-> attr[Len(attr) + 1 - i]]]

\* ForwardMeta: every entry becomes an attribute, in order
ForwardMeta(attr) == [i \in DOMAIN attr |-> [meta |-> attr[i]]]

Derived == [meta |-> "derive(Default)"]

\* meta_struct
MetaStruct(meta_ident) ==
  [attrs |-> << Derived >>, ident |-> meta_ident, style |-> "Struct",
   slots |-> << [member |-> Named("foo"), ty |-> "u32"] >>]

\* rich_deserialize_unit_struct
RichDeserializeUnitStruct(meta_ident, container) ==
  [attrs |-> ForwardMeta(container.attributes.meta.attr), ident |-> meta_ident,
   style |-> "Unit", slots |-> << >>]

\* meta_newtype
MetaNewtype(meta_ident) ==
  [attrs |-> << Derived >>, ident |-> meta_ident, style |-> "Tuple",
   slots |-> << [member |-> Unnamed(0), ty |-> "u32"] >>]

\* the identifier of the metadata type
MetaIdent(container) ==
  IF container.attributes.meta.name # NoneOpt
  THEN Unwrap(container.attributes.meta.name)
  ELSE container.ident \o "Meta"

\* the declaration of the metadata type, by the data of the container
MetaTypeOf(meta_ident, container) ==
  CASE container.data.kind = "Enum" -> MetaStruct(meta_ident)
    [] container.data.style = "Unit" -> RichDeserializeUnitStruct(meta_ident, container)
    [] container.data.style \in {"Newtype", "Tuple", "Struct"} -> MetaNewtype(meta_ident)

\* the implementation block: the metadata type, then the binding
ImplBlock(container) ==
  LET meta_ident == MetaIdent(container) IN
  [meta_type |-> MetaTypeOf(meta_ident, container),
   impl |-> [trait |-> "_rich::MetaType", self_ty |-> container.ident,
             Meta |-> meta_ident]]

\* dummy::wrap_in_const without an extern path
WrapInConst(local_path, code) ==
  [use_rich |-> "extern crate rich as " \o local_path, code |-> code]

\* expand_derive_rich_deserialize is entered: the Context is created
ExpandBegin ==
  /\ derive.pc = "idle"
  /\ \E input \in DeriveInputs :
       derive' = [derive EXCEPT !.pc = "attrs", !.input = Some(input),
                                !.cx = ContextNew, !.next = 1]
  /\ UNCHANGED << dynamicVars, structVars, shape >>

\* ContainerAttributes::from_ast looks at the next attribute of the input:
\* one that is not `meta`, or whose list is empty, is skipped; an item that
\* is refused makes `expect` panic, which drops the Context
AttributeFromAst ==
  /\ derive.pc = "attrs"
  /\ derive.next <= Len(Unwrap(derive.input).attrs)
  /\ LET attr == Unwrap(derive.input).attrs[derive.next]
         st == ParseNestedMeta([meta_attr |-> derive.meta_attr,
                                meta_name |-> derive.meta_name, err |-> FALSE],
                               attr.tokens)
     IN  IF attr.path # META \/ attr.tokens = << >>
         THEN derive' = [derive EXCEPT !.next = @ + 1]
         ELSE IF st.err
         THEN derive' = [derive EXCEPT !.pc = "panicked",
                                       !.dropped = ContextDrop(derive.cx)]
         ELSE derive' = [derive EXCEPT !.next = @ + 1, !.meta_attr = st.meta_attr,
                                       !.meta_name = st.meta_name]
  /\ UNCHANGED << dynamicVars, structVars, shape >>

\* Container::from_ast after the attributes: a union records an error and
\* gives no container, an enum or a struct gives one
DataFromAst ==
  /\ derive.pc = "attrs"
  /\ derive.next > Len(Unwrap(derive.input).attrs)
  /\ LET input == Unwrap(derive.input)
         attributes == [meta |-> [name |-> derive.meta_name, attr |-> derive.meta_attr]]
     IN  CASE input.data.kind = "Union" ->
                derive' = [derive EXCEPT
                  !.pc = "none",
                  !.cx = ContextErrorSpannedBy(derive.cx, input,
                           "automatic MetaType derive does not support union types")]
           [] input.data.kind = "Enum" ->
                derive' = [derive EXCEPT
                  !.pc = "built",
                  !.container = Some([ident |-> input.ident, attributes |-> attributes,
                                      data |-> [kind |-> "Enum", style |-> "Unit",
                                                fields |-> << >>]])]
           [] input.data.kind = "Struct" ->
                derive' = [derive EXCEPT
                  !.pc = "built",
                  !.container = Some([ident |-> input.ident, attributes |-> attributes,
                                      data |-> [kind |-> "Struct"]
                                                 @@ StructFromAst(input.data.fields)])]
  /\ UNCHANGED << dynamicVars, structVars, shape >>

\* no container: `cx.check()?` returns the recorded errors, and with none
\* recorded the function returns an error of its own
ExpandNone ==
  /\ derive.pc = "none"
  /\ LET c == ContextCheck(derive.cx) IN
     derive' = [derive EXCEPT
       !.pc = "returned",
       !.cx = c.cx,
       !.checks = @ + 1,
       !.checked = Some(c.result),
       !.dropped = ContextDrop(c.cx),
       !.returned = Some(IF c.result.ok
                         THEN [ok |-> FALSE, tokens |-> NoneOpt,
                               error |-> << "failed to build Container ast" >>]
                         ELSE [ok |-> FALSE, tokens |-> NoneOpt,
                               error |-> c.result.error])]
  /\ UNCHANGED << dynamicVars, structVars, shape >>

\* the tokens of the metadata type and of the implementation are built
ExpandImpl ==
  /\ derive.pc = "built"
  /\ derive' = [derive EXCEPT !.pc = "expanded",
                              !.tokens = Some(ImplBlock(Unwrap(derive.container)))]
  /\ UNCHANGED << dynamicVars, structVars, shape >>

\* `cx.check()?`, then the tokens are wrapped and returned
ExpandReturn ==
  /\ derive.pc = "expanded"
  /\ LET c == ContextCheck(derive.cx) IN
     derive' = [derive EXCEPT
       !.pc = "returned",
       !.cx = c.cx,
       !.checks = @ + 1,
       !.checked = Some(c.result),
       !.dropped = ContextDrop(c.cx),
       !.returned = Some(IF c.result.ok
                         THEN [ok |-> TRUE,
                               tokens |-> Some(WrapInConst("_rich", Unwrap(derive.tokens))),
                               error |-> << >>]
                         ELSE [ok |-> FALSE, tokens |-> NoneOpt,
                               error |-> c.result.error])]
  /\ UNCHANGED << dynamicVars, structVars, shape >>

SynErrors == { << "e1" >>, << "e2" >>, << "e1", "e3" >> }

\* a Context is created by a caller that uses it directly
ContextCreate ==
  /\ derive.pc = "idle"
  /\ derive' = [derive EXCEPT !.pc = "direct", !.cx = ContextNew]
  /\ UNCHANGED << dynamicVars, structVars, shape >>

\* the caller records an error built elsewhere
ContextRecord ==
  /\ derive.pc = "direct"
  /\ Len(derive.cx.errors) < MaxErrors
  /\ \E err \in SynErrors :
       derive' = [derive EXCEPT !.cx = ContextSynError(derive.cx, err)]
  /\ UNCHANGED << dynamicVars, structVars, shape >>

\* the caller records an error spanned by an object
ContextRecordSpanned ==
  /\ derive.pc = "direct"
  /\ Len(derive.cx.errors) < MaxErrors
  /\ \E msg \in {"m1", "m2"} :
       derive' = [derive EXCEPT !.cx = ContextErrorSpannedBy(derive.cx, "obj", msg)]
  /\ UNCHANGED << dynamicVars, structVars, shape >>

\* the caller consumes the Context
ContextChecked ==
  /\ derive.pc = "direct"
  /\ LET c == ContextCheck(derive.cx) IN
     derive' = [derive EXCEPT !.pc = "checked", !.cx = c.cx, !.checks = @ + 1,
                              !.checked = Some(c.result),
                              !.dropped = ContextDrop(c.cx)]
  /\ UNCHANGED << dynamicVars, structVars, shape >>

DeriveNext ==
  \/ ExpandBegin
  \/ AttributeFromAst
  \/ DataFromAst
  \/ ExpandNone
  \/ ExpandImpl
  \/ ExpandReturn
  \/ ContextCreate
  \/ ContextRecord
  \/ ContextRecordSpanned
  \/ ContextChecked

\* the generator and its Context
DeriveSpec == Init /\ [][DeriveNext]_vars

(***************************************************************************)
(* Structural projection: the type-level function StructuralProjection     *)
(* <TyProjector>::Projection, with the Projector implementations of the    *)
(* crates `rich` and `styp`.  A type is a term: a constructor and its      *)
(* type arguments.                                                         *)
(***************************************************************************)
MaxDepth == 1  \* constructors (Vec, tuple) nested above a leaf type

Ty(con, args) == [con |-> con, args |-> args]
TyUnit == Ty("()", << >>)
TyMetaId == Ty("MetaId", << >>)
TyEmptyMeta == Ty("EmptyMeta", << >>)
TyVec(t) == Ty("Vec", << t >>)
TySlice(t) == Ty("&[]", << t >>)
TyRef(t) == Ty("&", << t >>)
TyRefMut(t) == Ty("&mut", << t >>)
TyTuple(ts) == Ty("Tuple", ts)
TyTreeMeta(main, nested) == Ty("TreeMeta", << main, nested >>)

\* the leaf types that implement StructuralProjection
LeafTypes == { TyUnit, Ty("bool", << >>), Ty("u32", << >>), Ty("String", << >>) }

\* the tuple arities that implement StructuralProjection
Arities == 1 .. 3

ConstProjector(t) == [kind |-> "Const", arg |-> t]
TreeMetaProjector(m) == [kind |-> "TreeMeta", arg |-> m]
VecProjector == [kind |-> "Vec", arg |-> TyUnit]
SliceProjector == [kind |-> "Slice", arg |-> TyUnit]
RefProjector == [kind |-> "Ref", arg |-> TyUnit]
RefMutProjector == [kind |-> "RefMut", arg |-> TyUnit]

Projectors ==
  { ConstProjector(TyMetaId), TreeMetaProjector(TyMetaId), TreeMetaProjector(TyEmptyMeta),
    VecProjector, SliceProjector, RefProjector, RefMutProjector }

RECURSIVE Projection(_, _)
RECURSIVE Output(_, _)

\* a projection that reverses the components of a tuple
ProjectionReversed(ty, p) ==
  CASE ty \in LeafTypes -> TyUnit
    [] ty.con = "Vec" -> TyVec(Output(p, ty.args[1]))
    [] ty.con = "Tuple" /\ Len(ty.args) \in Arities ->
         TyTuple([i \in DOMAIN ty.args |-> Output(p, ty.args[Len(ty.args) + 1 - i])])

\* <ty as StructuralProjection<p>>::Projection
Projection(ty, p) ==
  CASE ty \in LeafTypes -> TyUnit
    [] ty.con = "Vec" -> TyVec(Output(p, ty.args[1]))
    [] ty.con = "Tuple" /\ Len(ty.args) \in Arities ->
         TyTuple([i \in DOMAIN ty.args |-> Output(p, ty.args[i])])

\* <p as Projector<ty>>::Output
Output(p, ty) ==
  CASE p.kind = "Const" -> p.arg
    [] p.kind = "TreeMeta" -> TyTreeMeta(p.arg, Projection(ty, p))
    [] p.kind = "Vec" -> TyVec(ty)
    [] p.kind = "Slice" -> TySlice(ty)
    [] p.kind = "Ref" -> TyRef(ty)
    [] p.kind = "RefMut" -> TyRefMut(ty)

\* Project<Base, Projector>
Project(base, projector) ==
  [ty |-> base, projector |-> projector, depth |-> 0,
   projection |-> Projection(base, projector)]

\* a leaf type is projected
ProjectLeaf ==
  /\ shape = NoneOpt
  /\ \E ty \in LeafTypes, p \in Projectors : shape' = Some(Project(ty, p))
  /\ UNCHANGED << dynamicVars, structVars, derive >>

\* the vector of the last type is projected, by the same projector
ProjectVec ==
  /\ shape # NoneOpt
  /\ Unwrap(shape).depth < MaxDepth
  /\ shape' = Some([Project(TyVec(Unwrap(shape).ty), Unwrap(shape).projector)
                      EXCEPT !.depth = Unwrap(shape).depth + 1])
  /\ UNCHANGED << dynamicVars, structVars, derive >>

\* a tuple that holds the last type at one position and leaf types at the
\* others is projected, by the same projector
ProjectTuple ==
  /\ shape # NoneOpt
  /\ Unwrap(shape).depth < MaxDepth
  /\ \E n \in Arities :
       \E at \in 1 .. n, others \in [1 .. n -> LeafTypes] :
         shape' = Some([Project(TyTuple([i \in 1 .. n |->
                                           IF i = at THEN Unwrap(shape).ty ELSE others[i]]),
                                Unwrap(shape).projector)
                          EXCEPT !.depth = Unwrap(shape).depth + 1])
  /\ UNCHANGED << dynamicVars, structVars, derive >>

ProjectionNext ==
  \/ ProjectLeaf
  \/ ProjectVec
  \/ ProjectTuple

\* the projections of the types built from leaves, vectors and tuples
ProjectionSpec == Init /\ [][ProjectionNext]_vars

(***************************************************************************)
(* Operators over metadata trees used by the properties.                   *)
(***************************************************************************)
RECURSIVE MetaIds(_)
RECURSIVE DescendantIds(_)
\* every identifier stored in the tree of a WrappedMeta<Option<ValueMeta>>
MetaIds(w) == {w.id} \cup DescendantIds(w)

\* the identifiers stored below node w: in its inner primitive or its children
DescendantIds(w) ==
  CASE w.nested.tag \in {"Bool", "String"} -> {w.nested.val.id}
    [] w.nested.tag = "Array" ->
         UNION { MetaIds(w.nested.val[i]) : i \in 1 .. Len(w.nested.val) }
    [] w.nested.tag = "Object" ->
         UNION { MetaIds(w.nested.val[k]) : k \in DOMAIN w.nested.val }
    [] OTHER -> {}

\* the children of a node of the metadata tree that are nodes themselves
MetaChildren(w) ==
  CASE w.nested.tag = "Array" -> { w.nested.val[i] : i \in 1 .. Len(w.nested.val) }
    [] w.nested.tag = "Object" -> { w.nested.val[k] : k \in DOMAIN w.nested.val }
    [] OTHER -> {}

RECURSIVE MetaNodes(_)
\* every node of the metadata tree, the root included
MetaNodes(w) == {w} \cup UNION { MetaNodes(c) : c \in MetaChildren(w) }

\* x was issued before y, or both after the counter reached usize::MAX
BeforeOrSaturated(x, y) == x < y \/ (x = USIZE_MAX /\ y = USIZE_MAX)

\* the decode that finished started on a scope no call had used
FreshDecode == phase = "done" /\ start = 0

\* the value and the metadata tree expected of the decode of TestInput
TestValue ==
  VObject([k \in {"foo", "message", "list"} |->
             CASE k = "foo" -> VBool(TRUE)
               [] k = "message" -> VString("Hello, World!")
               [] OTHER -> VArray(<< VBool(TRUE), VBool(FALSE) >>)])

TestMeta ==
  WrappedMetaNew(
    MetaObject([k \in {"foo", "message", "list"} |->
      CASE k = "foo" -> WrappedMetaNew(MetaBool(WrappedMetaNew(Unit, 0)), 1)
        [] k = "message" -> WrappedMetaNew(MetaString(WrappedMetaNew(Unit, 2)), 3)
        [] OTHER ->
             WrappedMetaNew(
               MetaArray(<< WrappedMetaNew(MetaBool(WrappedMetaNew(Unit, 4)), 5),
                            WrappedMetaNew(MetaBool(WrappedMetaNew(Unit, 6)), 7) >>),
               8)]),
    9)

TestDecoded == FreshDecode /\ ~free /\ replay = << >>

\* the place of the last value yielded for key k in a map frame
LastPos(keys, k) ==
  CHOOSE i \in 1 .. Len(keys) : keys[i] = k /\ \A j \in (i + 1) .. Len(keys) : keys[j] # k

\* the pairs (earlier sibling, later sibling) of the metadata of a frame
FrameSiblings(frame) ==
  IF frame.kind = "Array"
  THEN UNION { { << frame.meta[i], frame.meta[j] >> : j \in (i + 1) .. Len(frame.meta) } :
                 i \in 1 .. Len(frame.meta) }
  ELSE UNION { { << frame.meta[k1], frame.meta[k2] >> :
                   k2 \in { k \in DOMAIN frame.meta :
                              LastPos(frame.keys, k1) < LastPos(frame.keys, k) } } :
                 k1 \in DOMAIN frame.meta }

\* the pairs (earlier sibling, later sibling) of the arrays of a finished tree
TreeSiblings(root) ==
  UNION { UNION { { << w.nested.val[i], w.nested.val[j] >> :
                      j \in (i + 1) .. Len(w.nested.val) } :
                    i \in 1 .. Len(w.nested.val) } :
            w \in { n \in MetaNodes(root) : n.nested.tag = "Array" } }

Siblings ==
  UNION { FrameSiblings(stack[f]) : f \in 1 .. Len(stack) } \cup
    (IF phase = "done" THEN TreeSiblings(result.meta) ELSE {})

RECURSIVE Mirrors(_, _)
\* the metadata tree w has the branching structure of the value tree
Mirrors(value, w) ==
  /\ w.nested.tag # "None"
  /\ w.nested.tag = value.tag
  /\ CASE value.tag = "Array" ->
            /\ Len(w.nested.val) = Len(value.val)
            /\ \A i \in 1 .. Len(value.val) : Mirrors(value.val[i], w.nested.val[i])
       [] value.tag = "Object" ->
            /\ DOMAIN w.nested.val = DOMAIN value.val
            /\ \A k \in DOMAIN value.val : Mirrors(value.val[k], w.nested.val[k])
       [] OTHER -> TRUE

\* the DEFAULT of ArrayView::get and ObjectView::get
Sentinel == WrappedMetaNew(None, 0)

(***************************************************************************)
(* C1.  The concrete scenario of tests::rich_parse_serde_json_value:       *)
(* decoding {"foo": true, "message": "Hello, World!", "list": [true,       *)
(* false]} with a fresh scope gives the identifiers 0/1 to foo, 2/3 to     *)
(* message, 4/5 and 6/7 to the list elements, 8 to the list and 9 to the   *)
(* root; the root view reports 9 and the view of get("foo") reports 1.     *)
(***************************************************************************)
C1_Scenario ==
  TestDecoded =>
    /\ result.value = TestValue
    /\ result.meta = TestMeta
    /\ ValueViewMeta(ValueViewNew(result)) = 9
    /\ LET root == ValueViewVisit(ValueViewNew(result))
       IN /\ root.kind = "Object"
          /\ ObjectViewGet(root, "foo").ok = "some"
          /\ ValueViewMeta(ObjectViewGet(root, "foo")) = 1
    /\ (asked.kind = "key" /\ asked.key = "foo" /\ visited.value = result.value.val)
         => view.ok = "some" /\ ValueViewMeta(view) = 1

C1_Witness ==
  /\ TestDecoded
  /\ asked.kind = "key"
  /\ asked.key = "foo"
  /\ visited.value = result.value.val
  /\ view.ok = "some"

(***************************************************************************)
(* C2.  As claimed: every identifier attach or wrap returns is strictly    *)
(* greater than every identifier the scope returned before.                *)
(***************************************************************************)
C2_StrictlyIncreasing ==
  \A i, j \in 1 .. Len(issued) : i < j => issued[i] < issued[j]

(***************************************************************************)
(* C2, amended.  Every identifier returned is strictly greater than every  *)
(* identifier returned before, until the counter has reached usize::MAX;   *)
(* from then on every call returns usize::MAX.                             *)
(***************************************************************************)
C2_IncreasingUntilSaturation ==
  \A i, j \in 1 .. Len(issued) :
    i < j => BeforeOrSaturated(issued[i], issued[j])

C2_Witness ==
  /\ phase = "done"
  /\ start > 0
  /\ Len(issued) > start + 2
  /\ issued[Len(issued)] < USIZE_MAX

(***************************************************************************)
(* C3.  As claimed: in the result of a successful decode the identifier of *)
(* every node is strictly greater than every identifier in the metadata of *)
(* its descendants (for a scalar: of its inner primitive).                 *)
(***************************************************************************)
C3_PostOrder ==
  phase = "done" =>
    \A w \in MetaNodes(result.meta) : \A d \in DescendantIds(w) : d < w.id

(***************************************************************************)
(* C3, amended.  The identifier of every node is strictly greater than     *)
(* every identifier of its descendants, except that identifiers issued     *)
(* after the counter reached usize::MAX all equal usize::MAX.              *)
(***************************************************************************)
C3_PostOrderUntilSaturation ==
  phase = "done" =>
    \A w \in MetaNodes(result.meta) :
      \A d \in DescendantIds(w) : BeforeOrSaturated(d, w.id)

C3_Witness ==
  /\ phase = "done"
  /\ result.value.tag = "Array"
  /\ Len(result.value.val) = 1
  /\ result.value.val[1].tag \in {"Array", "Object"}
  /\ result.meta.id < USIZE_MAX

(***************************************************************************)
(* C4.  As claimed: siblings receive their identifiers in the order the    *)
(* deserializer yields them.  Every identifier in the subtree of array     *)
(* element i is below every identifier in the subtree of element j > i,    *)
(* and for two keys of an object the one whose value was yielded first has *)
(* the lower identifiers, whatever the order of the keys in the map.       *)
(***************************************************************************)
C4_SiblingOrder ==
  \A pair \in Siblings :
    \A x \in MetaIds(pair[1]), y \in MetaIds(pair[2]) : x < y

(***************************************************************************)
(* C4, amended.  Siblings receive their identifiers in the order the       *)
(* deserializer yields them (index order for arrays, input order of the    *)
(* keys for objects), except that identifiers issued after the counter     *)
(* reached usize::MAX all equal usize::MAX.                                *)
(***************************************************************************)
C4_SiblingOrderUntilSaturation ==
  \A pair \in Siblings :
    \A x \in MetaIds(pair[1]), y \in MetaIds(pair[2]) : BeforeOrSaturated(x, y)

\* the keys came as "b" then "a": the map holds them sorted, the identifiers do not
C4_Witness ==
  /\ stack # << >>
  /\ Top.kind = "Object"
  /\ Top.keys = << "b", "a" >>
  /\ Top.meta["b"].id < Top.meta["a"].id
  /\ Top.meta["a"].id < USIZE_MAX

(***************************************************************************)
(* C5.  After a successful decode the metadata tree mirrors the value tree *)
(* at every depth: same tag, same length of arrays, same key set of        *)
(* objects; the nested metadata is never None.                             *)
(***************************************************************************)
C5_ShapeIsomorphism == phase = "done" => Mirrors(result.value, result.meta)

C5_Witness ==
  /\ phase = "done"
  /\ result.value.tag = "Object"
  /\ DOMAIN result.value.val = {"a", "b"}
  /\ result.value.val["a"].tag = "String"

C7_NumberDecodes == phase = "failed" => error # "invalid type: number"

(***************************************************************************)
(* C8.  ArrayView::get(i) and ObjectView::get(k) return Some exactly when  *)
(* i / k is an index / key of the value tree; the view returned holds the  *)
(* value at i / k and, when the metadata tree has a child there, exactly   *)
(* that child.                                                             *)
(***************************************************************************)
C8_GetConsistent ==
  /\ asked.kind = "index" =>
       /\ view.ok = "some" <=> asked.index < Len(visited.value)
       /\ view.ok = "some" => view.value = visited.value[asked.index + 1]
       /\ (view.ok = "some" /\ asked.index < Len(visited.meta))
            => view.meta = visited.meta[asked.index + 1]
  /\ asked.kind = "key" =>
       /\ view.ok = "some" <=> asked.key \in DOMAIN visited.value
       /\ view.ok = "some" => view.value = visited.value[asked.key]
       /\ (view.ok = "some" /\ asked.key \in DOMAIN visited.meta)
            => view.meta = visited.meta[asked.key]

\* get(1) on an array of two elements whose metadata has two children
C8_Witness ==
  /\ asked.kind = "index"
  /\ asked.index = 1
  /\ view.ok = "some"
  /\ Len(visited.meta) = 2
  /\ view.meta.id > 0

(***************************************************************************)
(* C9.  When an index / key exists in the value tree but not in the        *)
(* metadata tree, get returns Some view paired with the sentinel metadata  *)
(* (nested None, identifier 0), for arrays and objects alike.              *)
(***************************************************************************)
C9_SentinelFallback ==
  /\ (asked.kind = "index" /\ asked.index < Len(visited.value)
        /\ asked.index >= Len(visited.meta))
       => view.ok = "some" /\ view.meta = Sentinel
  /\ (asked.kind = "key" /\ asked.key \in DOMAIN visited.value
        /\ asked.key \notin DOMAIN visited.meta)
       => view.ok = "some" /\ view.meta = Sentinel

C9_Witness ==
  /\ asked.kind = "key"
  /\ asked.key = "b"
  /\ "b" \in DOMAIN visited.value
  /\ DOMAIN visited.meta = {"a"}
  /\ view.ok = "some"

(***************************************************************************)
(* C10.  ValueView::visit returns the view kind of the value's variant     *)
(* (Bool, Array, Object); for Null, Number and String it stops in todo!()  *)
(* and returns no view of another kind.                                    *)
(***************************************************************************)
C10_VisitKind ==
  (asked.kind = "none" /\ visited.kind # "unset") =>
    /\ view.ok = "some"
    /\ visited.kind =
         (IF view.value.tag \in {"Bool", "Array", "Object"} THEN view.value.tag
          ELSE "todo")
    /\ visited.kind # "todo" => visited.value = view.value.val

C10_Witness ==
  /\ asked.kind = "none"
  /\ visited.kind = "todo"
  /\ view.value.tag = "Number"

(***************************************************************************)
(* C11.  A scope made by RichScope::new issues usize::MIN (0) first, and   *)
(* every attach or wrap consumes exactly one identifier: while fewer calls *)
(* than usize::MAX were made, in any mix of attach and wrap, the           *)
(* identifiers issued are 0, 1, ..., n-1 in call order and the counter is  *)
(* the number of calls.                                                    *)
(***************************************************************************)
C11_DenseFromZero ==
  Len(issued) < USIZE_MAX =>
    /\ \A i \in 1 .. Len(issued) : issued[i] = USIZE_MIN + (i - 1)
    /\ scope.next_id = USIZE_MIN + Len(issued)

\* direct calls, then a decode that wrapped a scalar, a container and the root
C11_Witness ==
  /\ phase = "done"
  /\ start >= 2
  /\ Len(issued) >= start + 4
  /\ Len(issued) < USIZE_MAX

(***************************************************************************)
(* C12.  With the counter at usize::MAX, attach and wrap still return: the *)
(* identifier returned is usize::MAX, the counter stays at usize::MAX and  *)
(* no later call returns a smaller identifier (no wrap-around to 0).       *)
(***************************************************************************)
C12_StaysAtMax ==
  \A i \in 1 .. Len(issued) :
    issued[i] = USIZE_MAX =>
      /\ scope.next_id = USIZE_MAX
      /\ \A j \in i .. Len(issued) : issued[j] = USIZE_MAX

\* two calls were made with the counter at usize::MAX
C12_Witness ==
  /\ Len(issued) >= 2
  /\ issued[Len(issued) - 1] = USIZE_MAX
  /\ issued[Len(issued)] = USIZE_MAX
  /\ scope.next_id = USIZE_MAX

\* the fields of a record type, and whether a type is a record
Components(ty) == IF ty = "Mascot" THEN << "is_crab", "price" >> ELSE Fields(ty)
IsRecord(ty) == ty \in {"Mascot", "Nested", "Config"}
ComponentType(f) == IF f = "nested" THEN "Nested" ELSE "primitive"

RECURSIVE Relocated(_, _, _, _)
\* (value, meta) is rich with every inline identifier moved to the slot of the
\* same field in the tree and every field value kept
Relocated(ty, rich, value, meta) ==
  /\ meta.meta = rich.meta
  /\ IF IsRecord(ty)
     THEN /\ DOMAIN value = DOMAIN rich.value
          /\ DOMAIN meta.nested = DOMAIN rich.value
          /\ \A f \in DOMAIN rich.value :
               Relocated(ComponentType(f), rich.value[f], value[f], meta.nested[f])
     ELSE /\ value = rich.value
          /\ meta.nested = Unit

RECURSIVE Concat(_)
Concat(seqs) == IF seqs = << >> THEN << >> ELSE Head(seqs) \o Concat(Tail(seqs))

RECURSIVE InlineIds(_, _)
\* the inline identifiers of a rich value, its own first
InlineIds(ty, rich) ==
  << rich.meta >> \o
    (IF IsRecord(ty)
     THEN Concat([i \in 1 .. Len(Components(ty)) |->
                    InlineIds(ComponentType(Components(ty)[i]),
                              rich.value[Components(ty)[i]])])
     ELSE << >>)

RECURSIVE TreeIds(_, _)
\* the identifiers of a TreeMeta, its own first
TreeIds(ty, meta) ==
  << meta.meta >> \o
    (IF IsRecord(ty)
     THEN Concat([i \in 1 .. Len(Components(ty)) |->
                    TreeIds(ComponentType(Components(ty)[i]),
                            meta.nested[Components(ty)[i]])])
     ELSE << >>)

\* how many times x occurs in a sequence
Count(seq, x) == Cardinality({ i \in 1 .. Len(seq) : seq[i] = x })

(***************************************************************************)
(* C13.  deep_split_meta on a record carrying inline (value, id) pairs     *)
(* returns a pure record whose field values are the inline values, paired  *)
(* with TreeMeta(own id, per field TreeMeta(inline id of the field, nested *)
(* metadata of the field)): every inline identifier ends at the slot of    *)
(* the same field and no field value changes.                              *)
(***************************************************************************)
C13_SplitRelocates ==
  split.receiver # NoneOpt =>
    Relocated(Unwrap(split.receiver).ty, Unwrap(split.receiver).rich,
              Unwrap(split.returned).value, Unwrap(split.returned).meta)

\* the RichMascot of tests::deep_split_meta_mascot, and what the test expects
C13_Witness ==
  /\ split.receiver # NoneOpt
  /\ Unwrap(split.receiver).ty = "Mascot"
  /\ Unwrap(split.receiver).rich =
       RichNew([is_crab |-> RichNew(TRUE, 1), price |-> RichNew(42, 2)], 3)
  /\ Unwrap(split.returned) =
       RichNew([is_crab |-> TRUE, price |-> 42],
               TreeMetaNew(3, [is_crab |-> TreeMetaNew(1, Unit),
                               price |-> TreeMetaNew(2, Unit)]))

(***************************************************************************)
(* C14.  The split mints no identifier: every identifier occurs in the     *)
(* returned metadata tree as many times as inline in the receiver, and the *)
(* counter of every RichScope is after the call what it was before it.     *)
(***************************************************************************)
C14_SplitMintsNothing ==
  split.receiver # NoneOpt =>
    /\ \A x \in 0 .. USIZE_MAX :
         Count(TreeIds(Unwrap(split.receiver).ty, Unwrap(split.returned).meta), x) =
           Count(InlineIds(Unwrap(split.receiver).ty, Unwrap(split.receiver).rich), x)
    /\ Unwrap(split.counters) = [d \in DOMAIN decoders |-> decoders[d].scope.next_id]

\* the split of a decoded RichConfig: five identifiers, the counter stays at five
C14_Witness ==
  /\ split.receiver # NoneOpt
  /\ Unwrap(split.receiver).ty = "Config"
  /\ Len(TreeIds("Config", Unwrap(split.returned).meta)) = 5
  /\ decoders[1].scope.next_id = 5

\* every field name of the two structs
AllFields == FieldSet("Config") \cup FieldSet("Nested")

\* the last event the decoder yielded
LastEvent(dec) == dec.tape[Len(dec.tape)]

\* the events at which the decode attaches: a value read, a struct completed
Mints(events) ==
  LET IsMint(i) == events[i][1] \in {"value", "end"}
  IN SelectSeq([i \in 1 .. Len(events) |-> i], IsMint)

\* what is attached at event i: the field whose value was read, the field
\* `nested` when its struct ends, or the decoded struct itself at the last end
Label(events, i) ==
  IF events[i][1] = "value" THEN events[i - 1][2]
  ELSE IF i = Len(events) THEN "self" ELSE "nested"

\* the identifier the result of a decode holds for a label
IdOf(dec, label) ==
  LET rich == Unwrap(dec.result)
  IN CASE label = "self" -> rich.meta
       [] label = "crab" /\ dec.ty = "Config" -> rich.value.nested.value.crab.meta
       [] OTHER -> rich.value[label].meta

\* the input of tests::rich_parse_config, as the events serde_json yields
ConfigInput ==
  << TMap, TKey("num"), TValue(42), TKey("str"), TValue("Hello, World!"),
     TKey("nested"), TMap, TKey("crab"), TValue(TRUE), TEnd, TEnd >>

(***************************************************************************)
(* C15.  In the decode of a statically shaped record a declared field name *)
(* met a second time returns the duplicate-field error at that key: the    *)
(* value of the duplicate is not read, no identifier is attached for it    *)
(* and no record is returned.                                              *)
(***************************************************************************)
C15_DuplicateField ==
  \A d \in DOMAIN decoders :
    LET dec == decoders[d]
    IN /\ \A i \in 1 .. Len(dec.stack) :
            dec.stack[i].key # "" => dec.stack[i].fields[dec.stack[i].key] = NoneOpt
       /\ \A f \in AllFields :
            dec.error = DuplicateField(f) =>
              /\ dec.phase = "failed"
              /\ dec.result = NoneOpt
              /\ LastEvent(dec) = TKey(f)
              /\ Unwrap(dec.raisedIn).fields[f] # NoneOpt
              /\ Len(dec.issued) = dec.start + Len(Mints(dec.tape))

\* crab is met twice inside the field nested of a RichConfig
C15_Witness ==
  /\ decoders[1].ty = "Config"
  /\ decoders[1].error = DuplicateField("crab")
  /\ Len(decoders[1].issued) > decoders[1].start

(***************************************************************************)
(* C16.  A missing required field is reported only when next_key has       *)
(* returned None, as the missing-field error naming the field; of several  *)
(* missing fields the first in declaration order is reported (str, then    *)
(* num, then nested for RichConfig).                                       *)
(***************************************************************************)
C16_MissingField ==
  \A d \in DOMAIN decoders :
    LET dec == decoders[d]
    IN \A f \in AllFields :
         dec.error = MissingField(f) =>
           LET frame == Unwrap(dec.raisedIn)
               fs == Fields(frame.ty)
           IN /\ dec.phase = "failed"
              /\ dec.result = NoneOpt
              /\ LastEvent(dec) = TEnd
              /\ \E i \in 1 .. Len(fs) :
                   /\ fs[i] = f
                   /\ frame.fields[f] = NoneOpt
                   /\ \A j \in 1 .. (i - 1) : frame.fields[fs[j]] # NoneOpt

\* str was read, num and nested are missing: num is reported
C16_Witness ==
  /\ decoders[1].error = MissingField("num")
  /\ Unwrap(decoders[1].raisedIn).fields["str"] # NoneOpt
  /\ Unwrap(decoders[1].raisedIn).fields["nested"] = NoneOpt

(***************************************************************************)
(* C17.  The decode of a statically shaped record attaches the identifiers *)
(* of the fields in the order the fields come in the input (a nested       *)
(* record: its fields first, then itself) and the identifier of the record *)
(* last; from a fresh scope the k-th of them is k - 1, e.g. the input      *)
(* order num, str, nested{crab} gives num 0, str 1, crab 2, nested 3 and   *)
(* the config 4.                                                           *)
(***************************************************************************)
C17_InputOrder ==
  \A d \in DOMAIN decoders :
    LET dec == decoders[d]
        mints == Mints(dec.tape)
    IN dec.phase = "done" =>
         /\ Len(dec.issued) = dec.start + Len(mints)
         /\ \A k \in 1 .. Len(mints) :
              /\ IdOf(dec, Label(dec.tape, mints[k])) = dec.issued[dec.start + k]
              /\ dec.start = 0 => IdOf(dec, Label(dec.tape, mints[k])) = k - 1
         /\ (dec.start = 0 /\ dec.tape = ConfigInput) =>
              Unwrap(dec.result) =
                RichNew([num |-> RichNew(42, 0), str |-> RichNew("Hello, World!", 1),
                         nested |-> RichNew([crab |-> RichNew(TRUE, 2)], 3)], 4)

C17_Witness ==
  /\ decoders[1].phase = "done"
  /\ decoders[1].start = 0
  /\ decoders[1].tape = ConfigInput
  /\ Unwrap(decoders[1].result).meta = 4

RECURSIVE PlainValue(_, _)
RECURSIVE PlainSeq(_, _, _)
RECURSIVE PlainMap(_, _, _)
\* the serde_json::Value a decode without metadata builds from the events from
\* event i on, and the index of the event after it
PlainValue(events, i) ==
  CASE events[i].e = "bool" -> [value |-> VBool(events[i].b), next |-> i + 1]
    [] events[i].e = "str" -> [value |-> VString(events[i].s), next |-> i + 1]
    [] events[i].e = "seq" -> PlainSeq(events, i + 1, << >>)
    [] OTHER -> PlainMap(events, i + 1, EmptyMap)

\* Vec::push of every element up to the end of the sequence
PlainSeq(events, i, items) ==
  IF events[i].e = "end"
  THEN [value |-> VArray(items), next |-> i + 1]
  ELSE PlainSeq(events, PlainValue(events, i).next,
                Append(items, PlainValue(events, i).value))

\* Map::insert of every entry up to the end of the map
PlainMap(events, i, map) ==
  IF events[i].e = "end"
  THEN [value |-> VObject(map), next |-> i + 1]
  ELSE PlainMap(events, PlainValue(events, i + 1).next,
                MapInsert(map, events[i].s, PlainValue(events, i + 1).value))

(***************************************************************************)
(* C18.  An error the deserializer reports, at any depth, while yielding a *)
(* key, a value or an element, is the error the whole rich decode returns; *)
(* no (value, metadata) pair is produced and no enclosing level replaces   *)
(* the error or goes on decoding.                                          *)
(***************************************************************************)
C18_ErrorPropagates ==
  (tape # << >> /\ tape[Len(tape)].e = "error") =>
    /\ phase = "failed"
    /\ error = tape[Len(tape)].s
    /\ result = NoResult
    /\ stack = << >>

\* the error came inside an array, after an inner array with a scalar was built
C18_Witness ==
  /\ phase = "failed"
  /\ tape = << Ev("error", FALSE, "eof") >>
  /\ error = "eof"
  /\ nodes.arrays = 1
  /\ nodes.scalars = 1

(***************************************************************************)
(* C19.  The value of a successful rich decode is the value a decode       *)
(* without metadata builds from the same events: arrays keep the order of  *)
(* their elements and every key of an object maps to its decoded child.    *)
(***************************************************************************)
C19_ValueAsPlain ==
  phase = "done" =>
    /\ PlainValue(tape, 1).next = Len(tape) + 1
    /\ result.value = PlainValue(tape, 1).value

\* an object whose only key came twice
C19_Witness ==
  /\ phase = "done"
  /\ Len(tape) = 6
  /\ tape[2] = tape[4]
  /\ tape[3] # tape[5]
  /\ result.value.tag = "Object"

(***************************************************************************)
(* C20.  Two RichScope instances are independent: attach on one never      *)
(* moves the counter of the other, so each of two interleaved decodes over *)
(* separate scopes gets the identifiers it gets when run alone (its own    *)
(* calls counted from 0), and both scopes issue the same identifier values *)
(* starting at 0.                                                          *)
(***************************************************************************)
C20_ScopesIndependent ==
  \A d \in DOMAIN decoders :
    LET dec == decoders[d]
        mints == Mints(dec.tape)
    IN /\ dec.scope.next_id = Len(dec.issued)
       /\ \A i \in 1 .. Len(dec.issued) : dec.issued[i] = USIZE_MIN + (i - 1)
       /\ dec.phase = "done" =>
            \A k \in 1 .. Len(mints) :
              IdOf(dec, Label(dec.tape, mints[k])) = dec.start + (k - 1)

\* both decodes are done; one scope was used before, both gave 0 to their first
\* call and the same identifier occurs in both results
C20_Witness ==
  /\ DOMAIN decoders = {1, 2}
  /\ decoders[1].phase = "done"
  /\ decoders[2].phase = "done"
  /\ decoders[1].start = 1
  /\ decoders[2].start = 0
  /\ decoders[1].issued[1] = decoders[2].issued[1]
  /\ Unwrap(decoders[1].result).value.crab.meta = Unwrap(decoders[2].result).meta


(***************************************************************************)
(* The derive generator.                                                   *)
(***************************************************************************)
\* the nested items of the #[meta(...)] attributes of an input, in the
\* order written
MetaItemsOf(input) ==
  Concat([i \in DOMAIN input.attrs |->
            IF input.attrs[i].path = META THEN input.attrs[i].tokens ELSE << >>])

\* the arguments of the nested items of one path, in the order written
ArgsOf(input, path) ==
  LET Test(m) == m.path = path
      sel == SelectSeq(MetaItemsOf(input), Test)
  IN  [i \in DOMAIN sel |-> sel[i].arg]

\* the expansion returned tokens
Expanded == derive.returned # NoneOpt /\ Unwrap(derive.returned).ok

\* the implementation block inside the returned tokens
ExpandedCode == Unwrap(Unwrap(derive.returned).tokens).code

IsUnitStruct(input) == input.data.kind = "Struct" /\ input.data.fields.style = "Unit"

(***************************************************************************)
(* C21: the expansion names the metadata type after `#[meta(name = X)]`    *)
(* when a name is given (the last one written) and `<TypeName>Meta`        *)
(* otherwise, the MetaType implementation of the input type binds that     *)
(* type as Meta, and for a unit struct the declaration of the metadata     *)
(* type carries the content of every `#[meta(attr(...))]` as an attribute, *)
(* in the order written.                                                   *)
(***************************************************************************)
C21_MetaNamedAndBound ==
  Expanded =>
    LET input == Unwrap(derive.input)
        names == ArgsOf(input, NAME)
        attrs == ArgsOf(input, ATTR)
        expected == IF names = << >> THEN input.ident \o "Meta" ELSE names[Len(names)]
    IN  /\ ExpandedCode.meta_type.ident = expected
        /\ ExpandedCode.impl.trait = "_rich::MetaType"
        /\ ExpandedCode.impl.self_ty = input.ident
        /\ ExpandedCode.impl.Meta = expected
        /\ IsUnitStruct(input) =>
             /\ Len(ExpandedCode.meta_type.attrs) = Len(attrs)
             /\ \A i \in DOMAIN attrs : ExpandedCode.meta_type.attrs[i].meta = attrs[i]

\* a unit struct with two different forwarded attributes was expanded
C21_Witness ==
  /\ Expanded
  /\ IsUnitStruct(Unwrap(derive.input))
  /\ LET attrs == ArgsOf(Unwrap(derive.input), ATTR) IN
     Len(attrs) = 2 /\ attrs[1] # attrs[2]

(***************************************************************************)
(* C22: for a record or tuple type, the declaration of the metadata type   *)
(* has exactly one slot per field of the input type, with the same name    *)
(* (record) or position (tuple).                                           *)
(***************************************************************************)
C22_SlotPerField ==
  (Expanded /\ Unwrap(derive.input).data.kind = "Struct"
            /\ Unwrap(derive.input).data.fields.style \in {"Named", "Unnamed"}) =>
    LET fields == FieldsFromAst(Unwrap(derive.input).data.fields.list)
        slots == ExpandedCode.meta_type.slots
    IN  /\ Len(slots) = Len(fields)
        /\ \A i \in DOMAIN fields : slots[i].member = fields[i].member


(***************************************************************************)
(* C30: when expand_derive_rich_deserialize returns, with a container      *)
(* built or not, its Context was consumed by `check` exactly once and was  *)
(* dropped defused; and `check` returns Ok exactly when no error was       *)
(* recorded, otherwise one error that combines the recorded errors in the  *)
(* order they were recorded.                                               *)
(***************************************************************************)
C30_ContextCheckedOnce ==
  /\ derive.pc = "returned" => (derive.checks = 1 /\ derive.dropped = "defused")
  /\ derive.checks <= 1
  /\ derive.checks = 0 => derive.dropped # "defused"
  /\ derive.checked # NoneOpt =>
       /\ Unwrap(derive.checked).ok <=> derive.cx.errors = << >>
       /\ ~Unwrap(derive.checked).ok =>
            Unwrap(derive.checked).error = Concat(derive.cx.errors)
  /\ (derive.pc = "returned" /\ ~Unwrap(derive.checked).ok) =>
       Unwrap(derive.returned).error = Unwrap(derive.checked).error

\* the expansion returned through the path without a container, with the
\* recorded error
C30_Witness ==
  /\ derive.pc = "returned"
  /\ derive.container = NoneOpt
  /\ ~Unwrap(derive.checked).ok
  /\ derive.cx.errors # << >>


(***************************************************************************)
(* C23: the projection depends on the shape only: the unit type, bool, u32 *)
(* and String project to the unit type under every projector, Vec<T> to    *)
(* the vector of the projector's output for T, a tuple of arity 1 to 3 to  *)
(* the tuple of the projector's outputs for its components, in the same    *)
(* order, and the output of TreeMetaProjector<M> for a component T is      *)
(* TreeMeta<M, projection of T>.                                           *)
(***************************************************************************)
C23_ProjectionStructural ==
  shape # NoneOpt =>
    LET ty == Unwrap(shape).ty
        p == Unwrap(shape).projector
        out == Unwrap(shape).projection
    IN  /\ ty.con \in {"()", "bool", "u32", "String"} => out = [con |-> "()", args |-> << >>]
        /\ ty.con = "Vec" => (out.con = "Vec" /\ out.args = << Output(p, ty.args[1]) >>)
        /\ ty.con = "Tuple" =>
             /\ out.con = "Tuple"
             /\ Len(out.args) = Len(ty.args)
             /\ \A i \in DOMAIN ty.args : out.args[i] = Output(p, ty.args[i])
        /\ p.kind = "TreeMeta" =>
             \A i \in DOMAIN ty.args :
               /\ out.args[i].con = "TreeMeta"
               /\ out.args[i].args[1] = p.arg
               /\ out.args[i].args[2] = Projection(ty.args[i], p)
               /\ ty.args[i].con \in {"()", "bool", "u32", "String"} =>
                    out.args[i].args[2] = [con |-> "()", args |-> << >>]
        /\ Projection(ty, p) = out

\* a tuple of three different leaf types was projected by TreeMetaProjector
C23_Witness ==
  /\ shape # NoneOpt
  /\ Unwrap(shape).ty.con = "Tuple"
  /\ Len(Unwrap(shape).ty.args) = 3
  /\ Cardinality({ Unwrap(shape).ty.args[i] : i \in 1 .. 3 }) = 3
  /\ Unwrap(shape).projector.kind = "TreeMeta"

(***************************************************************************)
(* C24: every node of the result of a dynamic decode can be dispatched by  *)
(* ValueView::visit without reaching the branch that is not implemented.   *)
(***************************************************************************)
C24_EveryNodeVisitable ==
  phase = "done" => visited.kind # "todo"


(***************************************************************************)
(* C25: in the decode of a record, requests for keys and for values        *)
(* alternate: after every key the decoder yielded, known or not, a value   *)
(* is consumed before the next key is requested.                           *)
(***************************************************************************)
C25_KeyThenValue ==
  \A d \in DOMAIN decoders :
    \A i \in 1 .. Len(decoders[d].tape) - 1 :
      decoders[d].tape[i][1] = "key" => decoders[d].tape[i + 1][1] \in {"value", "map"}


(***************************************************************************)
(* Operators over the entries of an object under construction.  `froms`    *)
(* holds, for every key read, the number of identifiers issued when its    *)
(* value began; the identifiers of entry j are those issued up to the next *)
(* key (or up to now).                                                     *)
(***************************************************************************)
EntryTo(frame, j) == IF j < Len(frame.froms) THEN frame.froms[j + 1] ELSE Len(issued)

\* the identifiers minted for the value of the j-th entry read into the frame
EntryIds(frame, j) == { issued[p] : p \in (frame.froms[j] + 1) .. EntryTo(frame, j) }

\* the identifiers held by the children collected in a frame
FrameIds(frame) ==
  IF frame.kind = "Array"
  THEN UNION { MetaIds(frame.meta[i]) : i \in 1 .. Len(frame.meta) }
  ELSE UNION { MetaIds(frame.meta[k]) : k \in DOMAIN frame.meta }

\* the identifiers held by the partial results of the decode in progress
StackIds == UNION { FrameIds(stack[i]) : i \in 1 .. Len(stack) }

\* the entries of an object frame that a later entry of the same key replaced
Overwritten(frame) ==
  { j \in 1 .. Len(frame.keys) : j # LastPos(frame.keys, frame.keys[j]) }

\* the maps of the object keep, for every key, the last entry read
KeepsLast(frame) ==
  /\ DOMAIN frame.value = { frame.keys[j] : j \in 1 .. Len(frame.keys) }
  /\ DOMAIN frame.meta = DOMAIN frame.value
  /\ \A k \in DOMAIN frame.value :
       LET j == LastPos(frame.keys, k) IN
       /\ Mirrors(frame.value[k], frame.meta[k])
       /\ frame.meta[k].id = issued[EntryTo(frame, j)]
       /\ MetaIds(frame.meta[k]) \subseteq EntryIds(frame, j)
  /\ \A j \in Overwritten(frame) : EntryIds(frame, j) # {}

(***************************************************************************)
(* C26 (as stated): when an object repeats a key, both maps keep the last  *)
(* occurrence, the key sets are equal, and the identifiers minted for an   *)
(* overwritten occurrence are consumed but appear nowhere in the result.   *)
(***************************************************************************)
C26_LastOccurrence ==
  \A i \in 1 .. Len(stack) :
    stack[i].kind = "Object" =>
      /\ KeepsLast(stack[i])
      /\ \A j \in Overwritten(stack[i]) : EntryIds(stack[i], j) \cap StackIds = {}

(***************************************************************************)
(* C26 (amended): as above, except that identifiers issued once the        *)
(* counter reached usize::MAX all equal usize::MAX, so that value may be   *)
(* minted for an overwritten occurrence and be held by the result too.     *)
(***************************************************************************)
C26_LastOccurrenceUntilSaturation ==
  \A i \in 1 .. Len(stack) :
    stack[i].kind = "Object" =>
      /\ KeepsLast(stack[i])
      /\ \A j \in Overwritten(stack[i]) :
           EntryIds(stack[i], j) \cap StackIds \subseteq {USIZE_MAX}

\* an object whose key came twice holds the second entry, below saturation
C26_Witness ==
  /\ stack # << >>
  /\ Top.kind = "Object"
  /\ ~Top.haskey
  /\ Overwritten(Top) # {}
  /\ scope.next_id < USIZE_MAX


\* the identifiers minted so far by the last decode
DecodeIds == { issued[p] : p \in (start + 1) .. Len(issued) }

\* the identifier the next call of wrap on the scope returns
NextWrapId == RichScopeWrap(scope, RichNew(Unit, Unit)).rich.meta.id

\* the identifier the next call of attach on the scope returns
NextAttachId == RichScopeAttach(scope, Unit).rich.meta

(***************************************************************************)
(* C27 (as stated): a failed decode does not roll back the scope: the      *)
(* identifiers it minted stay consumed, so the identifier the scope mints  *)
(* next, and with it every later one, is strictly greater than every       *)
(* identifier minted during the failed decode.                             *)
(***************************************************************************)
C27_FailedNotRolledBack ==
  phase = "failed" =>
    \A id \in DecodeIds : id < NextWrapId /\ id < NextAttachId

(***************************************************************************)
(* C27 (amended): as above, until the counter reaches usize::MAX; from     *)
(* then on the failed decode and the later calls all mint usize::MAX.      *)
(***************************************************************************)
C27_FailedNotRolledBackUntilSaturation ==
  phase = "failed" =>
    \A id \in DecodeIds :
      BeforeOrSaturated(id, NextWrapId) /\ BeforeOrSaturated(id, NextAttachId)

\* a decode failed after it minted identifiers, below saturation
C27_Witness ==
  /\ phase = "failed"
  /\ Len(issued) >= start + 2
  /\ scope.next_id < USIZE_MAX

(***************************************************************************)
(* rich_deserialize written as the recursion it is in the source: the node *)
(* that starts at event i, decoded over scope s; `out` is the rich node    *)
(* and the scope after it, `next` the position after the node.             *)
(***************************************************************************)
RECURSIVE RichDeserialize(_, _, _)
RECURSIVE RichSeq(_, _, _, _, _)
RECURSIVE RichMap(_, _, _, _, _)

RichScalar(s, value0, isBool) ==
  LET wrapped0 == RichScopeWrap(s, RichNew(value0, Unit))
      value == IF isBool THEN VBool(wrapped0.rich.value)
                         ELSE VString(wrapped0.rich.value)
      meta == IF isBool THEN MetaBool(wrapped0.rich.meta)
                        ELSE MetaString(wrapped0.rich.meta)
  IN  RichScopeWrap(wrapped0.scope, RichNew(value, meta))

RichDeserialize(events, i, s) ==
  CASE events[i].e = "bool" -> [out |-> RichScalar(s, events[i].b, TRUE), next |-> i + 1]
    [] events[i].e = "str" -> [out |-> RichScalar(s, events[i].s, FALSE), next |-> i + 1]
    [] events[i].e = "seq" -> RichSeq(events, i + 1, s, << >>, << >>)
    [] OTHER -> RichMap(events, i + 1, s, EmptyMap, EmptyMap)

RichSeq(events, i, s, arr, arr_meta) ==
  IF events[i].e = "end"
  THEN [out |-> RichScopeWrap(s, RichNew(VArray(arr), MetaArray(arr_meta))),
        next |-> i + 1]
  ELSE LET child == RichDeserialize(events, i, s) IN
       RichSeq(events, child.next, child.out.scope,
               Append(arr, child.out.rich.value), Append(arr_meta, child.out.rich.meta))

RichMap(events, i, s, obj, obj_meta) ==
  IF events[i].e = "end"
  THEN [out |-> RichScopeWrap(s, RichNew(VObject(obj), MetaObject(obj_meta))),
        next |-> i + 1]
  ELSE LET child == RichDeserialize(events, i + 1, s) IN
       RichMap(events, child.next, child.out.scope,
               MapInsert(obj, events[i].s, child.out.rich.value),
               MapInsert(obj_meta, events[i].s, child.out.rich.meta))

RECURSIVE OffsetMeta(_, _)
\* the metadata tree with every identifier increased by k
OffsetMeta(w, k) ==
  [id |-> w.id + k,
   nested |->
     CASE w.nested.tag \in {"Bool", "String"} ->
            [tag |-> w.nested.tag,
             val |-> [id |-> w.nested.val.id + k, nested |-> w.nested.val.nested]]
       [] w.nested.tag = "Array" ->
            MetaArray([i \in 1 .. Len(w.nested.val) |-> OffsetMeta(w.nested.val[i], k)])
       [] w.nested.tag = "Object" ->
            MetaObject([f \in DOMAIN w.nested.val |-> OffsetMeta(w.nested.val[f], k)])
       [] OTHER -> w.nested]

\* the events of the last decode, decoded over a fresh scope
FreshRich == RichDeserialize(tape, 1, RichScopeNew).out.rich

(***************************************************************************)
(* C28: decoding is deterministic and offset-invariant: unless the counter *)
(* saturated, the result of a decode over a scope whose next identifier is *)
(* k has the value tree that the decode of the same events over a fresh    *)
(* scope has, and its metadata tree with every identifier increased by k;  *)
(* a decode over a fresh scope gives exactly that result.                  *)
(***************************************************************************)
C28_OffsetInvariant ==
  (phase = "done" /\ issued[Len(issued)] < USIZE_MAX) =>
    /\ result.value = FreshRich.value
    /\ result.meta = OffsetMeta(FreshRich.meta, issued[start + 1])
    /\ start = 0 => result = FreshRich

\* an object with a child was decoded over a scope that had issued identifiers
C28_Witness ==
  /\ phase = "done"
  /\ start > 0
  /\ issued[start + 1] = start
  /\ issued[Len(issued)] < USIZE_MAX
  /\ result.value.tag = "Object"
  /\ DOMAIN result.value.val # {}


(***************************************************************************)
(* C29: ValueView::visit on a Bool, Array or Object value whose nested     *)
(* metadata is None or of another variant does not fail: it returns the    *)
(* view of the value's variant over default metadata (identifier 0 for a   *)
(* Bool, the empty sequence for an Array, the empty map for an Object),    *)
(* and a get on a view without metadata gives every child of the value     *)
(* the sentinel metadata.                                                  *)
(***************************************************************************)
C29_VisitDefaults ==
  /\ (asked.kind = "none" /\ visited.kind # "unset"
        /\ view.value.tag \in {"Bool", "Array", "Object"}
        /\ view.meta.nested.tag # view.value.tag) =>
       /\ visited.kind = view.value.tag
       /\ visited.value = view.value.val
       /\ visited.kind = "Bool" => visited.meta = [id |-> 0, nested |-> Unit]
       /\ visited.kind = "Array" => visited.meta = << >>
       /\ visited.kind = "Object" => DOMAIN visited.meta = {}
  /\ (asked.kind = "index" /\ Len(visited.meta) = 0) =>
       view = IF asked.index < Len(visited.value)
              THEN [ok |-> "some", value |-> visited.value[asked.index + 1],
                    meta |-> Sentinel]
              ELSE ViewNone
  /\ (asked.kind = "key" /\ DOMAIN visited.meta = {}) =>
       view = IF asked.key \in DOMAIN visited.value
              THEN [ok |-> "some", value |-> visited.value[asked.key], meta |-> Sentinel]
              ELSE ViewNone

\* an array of two elements was visited through metadata of an object
C29_Witness ==
  /\ asked.kind = "none"
  /\ visited.kind = "Array"
  /\ Len(visited.value) = 2
  /\ view.meta.nested.tag = "Object"
  /\ visited.meta = << >>

====
